---- MODULE Spec2Model ----
(***************************************************************************)
(* A model of the accessor/layer core of OpenDAL as found in               *)
(*   core/src/layers/error_context.rs    ErrorContextLayer and its wrappers *)
(*   core/src/services/azblob/backend.rs AzblobBackend                      *)
(* A caller issues verb calls and stream-method calls on an accessor chain  *)
(* (zero or more ErrorContextLayer over one innermost accessor).  Every     *)
(* action is one whole call: it records what the caller got back, what the  *)
(* innermost accessor/stream was asked, and what was sent to the service.   *)
(***************************************************************************)
EXTENDS Integers, Sequences, FiniteSets, TLC

\* ------------------------------------------------------------------ bounds
\* Largest number of ErrorContextLayer stacked over the innermost accessor.
MaxLayers == 2
\* Longest batch whose paths are enumerated freely (longer ones are generated).
MaxSmallBatch == 2

\* --------------------------------------------------------------- constants
AZBLOB_BATCH_LIMIT == 256

\* Paths are strings, modelled as sequences of characters.
Paths == {<<"/">>, <<"a">>, <<"d", "/">>}

\* ------------------------------------------------------------------- Error
\* Error: a Kind, a message, an operation tag and an ordered context stack.
NoError == [kind |-> "", message |-> "", operation |-> "", context |-> <<>>]

Error_new(kind, message) ==
    [kind |-> kind, message |-> message, operation |-> "", context |-> <<>>]

with_operation(err, operation) == [err EXCEPT !.operation = operation]

with_context(err, key, value) ==
    [err EXCEPT !.context = Append(@, <<key, value>>)]

\* The values an error carries under `key`, in the order they were appended.
RECURSIVE ValuesOf(_, _)
ValuesOf(context, key) ==
    IF context = <<>> THEN <<>>
    ELSE LET h == Head(context)
             rest == ValuesOf(Tail(context), key)
         IN IF h[1] = key THEN <<h[2]>> \o rest ELSE rest

\* ----------------------------------------------------------------- results
NoStream == [type |-> "none", wrappers |-> <<>>]

\* A stream as the innermost accessor hands it out: no wrapper around it yet.
RawStream(type) == [type |-> type, wrappers |-> <<>>]

Ok(rp, stream) ==
    [ok |-> TRUE, rp |-> rp, err |-> NoError, stream |-> stream, results |-> <<>>]

OkBatch(results) ==
    [ok |-> TRUE, rp |-> <<"RpBatch">>, err |-> NoError, stream |-> NoStream,
     results |-> results]

Err(err) ==
    [ok |-> FALSE, rp |-> <<>>, err |-> err, stream |-> NoStream, results |-> <<>>]

\* Result::map_err
map_err(r, f(_)) == IF r.ok THEN r ELSE Err(f(r.err))

\* ------------------------------------------------------------ call arguments
NoRange == [offset |-> -1, size |-> -1]
Ranges == {NoRange, [offset |-> 0, size |-> 3]}

\* BytesRange's Display
BytesRange_to_string(br) ==
    CASE br.offset < 0 /\ br.size < 0 -> "0-"
      [] br.offset >= 0 /\ br.size < 0 -> ToString(br.offset) \o "-"
      [] br.offset < 0 /\ br.size >= 0 -> "-" \o ToString(br.size)
      [] OTHER -> ToString(br.offset) \o "-" \o ToString(br.offset + br.size - 1)

\* The Op* object of a call: the fields the modelled code reads.
OpDefault == [range |-> NoRange, append |-> FALSE, paths |-> <<>>]
OpRead(range) == [OpDefault EXCEPT !.range = range]
OpWrite(append) == [OpDefault EXCEPT !.append = append]
OpBatch(paths) == [OpDefault EXCEPT !.paths = paths]
\* copy(from, to, args): `from` is the path of the call, `to` goes with the
\* arguments.
OpCopy(to) == [OpDefault EXCEPT !.paths = <<to>>]

\* ------------------------------------------------------- ErrorContextWrapper
\* ErrorContextWrapper built with an empty path.
ErrorContextWrapper_EmptyPath(scheme, path, os) ==
    [os EXCEPT !.wrappers = Append(@, [scheme |-> scheme, path |-> <<>>])]

\* ErrorContextWrapper { scheme, path, inner }: the stream with one more
\* wrapper around it.
ErrorContextWrapper(scheme, path, os) ==
    [os EXCEPT !.wrappers = Append(@, [scheme |-> scheme, path |-> path])]

\* Annotate with the path left out.
Annotate_NoPath(err, operation, scheme, path) ==
    with_context(with_operation(err, operation), "service", scheme)

\* Annotate building a fresh error of Kind Unexpected around the old context.
Annotate_KindLost(err, operation, scheme, path) ==
    with_context(with_context(with_operation([err EXCEPT !.kind = "Unexpected"],
                                             operation),
                              "service", scheme),
                 "path", path)

\* The annotation every verb but read and batch applies in its map_err.
Annotate(err, operation, scheme, path) ==
    with_context(with_context(with_operation(err, operation), "service", scheme),
                 "path", path)

\* --------------------------------------------------- ErrorContextAccessor
\* Each verb takes the layer's meta, the call's path and arguments, and r,
\* what self.inner's verb returned for the same path and arguments.
ErrorContextAccessor_create_dir(meta, path, args, r) ==
    map_err(r, LAMBDA err: Annotate(err, "Operation::CreateDir", meta.scheme, path))

ErrorContextAccessor_read(meta, path, args, r) ==
    IF r.ok
    THEN Ok(r.rp, ErrorContextWrapper(meta.scheme, path, r.stream))
    ELSE Err(with_context(Annotate(r.err, "Operation::Read", meta.scheme, path),
                          "range", BytesRange_to_string(args.range)))

ErrorContextAccessor_write(meta, path, args, r) ==
    IF r.ok
    THEN Ok(r.rp, ErrorContextWrapper(meta.scheme, path, r.stream))
    ELSE Err(Annotate(r.err, "Operation::Write", meta.scheme, path))

ErrorContextAccessor_stat(meta, path, args, r) ==
    map_err(r, LAMBDA err: Annotate(err, "Operation::Stat", meta.scheme, path))

ErrorContextAccessor_delete(meta, path, args, r) ==
    map_err(r, LAMBDA err: Annotate(err, "Operation::Delete", meta.scheme, path))

ErrorContextAccessor_list(meta, path, args, r) ==
    IF r.ok
    THEN Ok(r.rp, ErrorContextWrapper(meta.scheme, path, r.stream))
    ELSE Err(Annotate(r.err, "Operation::List", meta.scheme, path))

ErrorContextAccessor_scan(meta, path, args, r) ==
    IF r.ok
    THEN Ok(r.rp, ErrorContextWrapper(meta.scheme, path, r.stream))
    ELSE Err(Annotate(r.err, "Operation::Scan", meta.scheme, path))

ErrorContextAccessor_presign(meta, path, args, r) ==
    map_err(r, LAMBDA err: Annotate(err, "Operation::Presign", meta.scheme, path))

\* batch failing as a whole as soon as one entry failed.
ErrorContextAccessor_batch_FailFast(meta, path, args, r) ==
    IF r.ok /\ \A i \in 1..Len(r.results) : r.results[i][2].ok
    THEN r
    ELSE Err(with_context(with_operation(
                 IF r.ok THEN Error_new("Unexpected", "batch entry failed") ELSE r.err,
                 "Operation::Batch"),
             "service", meta.scheme))

\* batch has no path of its own: a failed call gets the operation and the
\* service; each failed entry of a successful call is annotated as a delete
\* of that entry's path.
ErrorContextAccessor_batch(meta, path, args, r) ==
    IF r.ok
    THEN OkBatch([i \in 1..Len(r.results) |->
                    <<r.results[i][1],
                      map_err(r.results[i][2],
                              LAMBDA err: Annotate(err, "Operation::Delete",
                                                   meta.scheme, r.results[i][1]))>>])
    ELSE Err(with_context(with_operation(r.err, "Operation::Batch"),
                          "service", meta.scheme))

ErrorContextAccessor_blocking_create_dir(meta, path, args, r) ==
    map_err(r, LAMBDA err:
                 Annotate(err, "Operation::BlockingCreateDir", meta.scheme, path))

ErrorContextAccessor_blocking_read(meta, path, args, r) ==
    IF r.ok
    THEN Ok(r.rp, ErrorContextWrapper(meta.scheme, path, r.stream))
    ELSE Err(Annotate(r.err, "Operation::BlockingRead", meta.scheme, path))

ErrorContextAccessor_blocking_write(meta, path, args, r) ==
    IF r.ok
    THEN Ok(r.rp, ErrorContextWrapper(meta.scheme, path, r.stream))
    ELSE Err(Annotate(r.err, "Operation::BlockingWrite", meta.scheme, path))

\* blocking_stat tagged as the async stat.
ErrorContextAccessor_blocking_stat_AsyncTag(meta, path, args, r) ==
    map_err(r, LAMBDA err: Annotate(err, "Operation::Stat", meta.scheme, path))

ErrorContextAccessor_blocking_stat(meta, path, args, r) ==
    map_err(r, LAMBDA err: Annotate(err, "Operation::BlockingStat", meta.scheme, path))

ErrorContextAccessor_blocking_delete(meta, path, args, r) ==
    map_err(r, LAMBDA err:
                 Annotate(err, "Operation::BlockingDelete", meta.scheme, path))

ErrorContextAccessor_blocking_list(meta, path, args, r) ==
    IF r.ok
    THEN Ok(r.rp, ErrorContextWrapper(meta.scheme, path, r.stream))
    ELSE Err(Annotate(r.err, "Operation::BlockingList", meta.scheme, path))

ErrorContextAccessor_blocking_scan(meta, path, args, r) ==
    IF r.ok
    THEN Ok(r.rp, ErrorContextWrapper(meta.scheme, path, r.stream))
    ELSE Err(Annotate(r.err, "Operation::BlockingScan", meta.scheme, path))

\* ErrorContextAccessor defines no copy: the call falls to LayeredAccessor's
\* default, which hands it to self.inner and returns its answer as it is.
LayeredAccessor_copy(meta, path, args, r) == r

AsyncVerbs ==
    {"create_dir", "read", "write", "stat", "delete", "list", "scan", "presign",
     "batch"}
BlockingVerbs ==
    {"blocking_create_dir", "blocking_read", "blocking_write", "blocking_stat",
     "blocking_delete", "blocking_list", "blocking_scan"}
Verbs == AsyncVerbs \cup BlockingVerbs

\* One ErrorContextAccessor's answer to `verb`, given its inner's answer r.
LayeredCall(verb, meta, path, args, r) ==
    CASE verb = "create_dir" -> ErrorContextAccessor_create_dir(meta, path, args, r)
      [] verb = "read" -> ErrorContextAccessor_read(meta, path, args, r)
      [] verb = "write" -> ErrorContextAccessor_write(meta, path, args, r)
      [] verb = "stat" -> ErrorContextAccessor_stat(meta, path, args, r)
      [] verb = "delete" -> ErrorContextAccessor_delete(meta, path, args, r)
      [] verb = "list" -> ErrorContextAccessor_list(meta, path, args, r)
      [] verb = "scan" -> ErrorContextAccessor_scan(meta, path, args, r)
      [] verb = "presign" -> ErrorContextAccessor_presign(meta, path, args, r)
      [] verb = "batch" -> ErrorContextAccessor_batch(meta, path, args, r)
      [] verb = "copy" -> LayeredAccessor_copy(meta, path, args, r)
      [] verb = "blocking_create_dir" ->
            ErrorContextAccessor_blocking_create_dir(meta, path, args, r)
      [] verb = "blocking_read" ->
            ErrorContextAccessor_blocking_read(meta, path, args, r)
      [] verb = "blocking_write" ->
            ErrorContextAccessor_blocking_write(meta, path, args, r)
      [] verb = "blocking_stat" ->
            ErrorContextAccessor_blocking_stat(meta, path, args, r)
      [] verb = "blocking_delete" ->
            ErrorContextAccessor_blocking_delete(meta, path, args, r)
      [] verb = "blocking_list" ->
            ErrorContextAccessor_blocking_list(meta, path, args, r)
      [] verb = "blocking_scan" ->
            ErrorContextAccessor_blocking_scan(meta, path, args, r)

\* The answer of the n innermost layers of `layers` stacked over
\* an innermost accessor that answered r: layers[1] wraps the innermost accessor
\* and sees its answer first, layers[n] is the one the caller talks to.
RECURSIVE ThroughLayers(_, _, _, _, _, _)
ThroughLayers(layers, n, verb, path, args, r) ==
    IF n = 0 THEN r
    ELSE LayeredCall(verb, layers[n], path, args,
                     ThroughLayers(layers, n - 1, verb, path, args, r))

\* ------------------------------------------------------------ AzblobCore
\* The storage service as the backend sees it: `blobs` is the set of blob
\* names that exist, `env` is how the service answers this call:
\*   "up"    it answers each request according to `blobs`;
\*   "deny"  it answers every request with FORBIDDEN;
\*   "down"  the request is handed to the client and the transport fails.
\* A batch request is answered part by part: the parts for the paths in
\* `denied` are FORBIDDEN, and `shape` is the form of the whole answer
\* ("multipart" is the well-formed one).
Envs == {"up", "deny", "down"}
Shapes == {"multipart", "no_content_type", "no_boundary", "not_utf8", "garbled"}

Request(op, paths) == [op |-> op, paths |-> paths]

\* The names a blob may have: the root "/" names the container, not a blob.
BlobNames == Paths \ {<<"/">>}

\* What one request does to the set of blobs when the service carries it out.
Served(blobs, req) ==
    CASE req.op = "PutBlob" -> blobs \cup ({req.paths[1]} \cap BlobNames)
      [] req.op = "DeleteBlob" -> blobs \ {req.paths[1]}
      [] req.op = "CopyBlob" ->
            IF req.paths[1] \in blobs
            THEN blobs \cup ({req.paths[2]} \cap BlobNames) ELSE blobs
      [] OTHER -> blobs

\* The status the service gives one request when it carries it out.
Status(blobs, req) ==
    CASE req.op = "PutBlob" ->
            IF req.paths[1] \in BlobNames THEN "CREATED" ELSE "BAD_REQUEST"
      [] req.op = "GetBlob" ->
            IF req.paths[1] \in blobs THEN "OK" ELSE "NOT_FOUND"
      [] req.op = "GetBlobProperties" ->
            IF req.paths[1] \in blobs THEN "OK" ELSE "NOT_FOUND"
      [] req.op = "DeleteBlob" ->
            IF req.paths[1] \in blobs THEN "ACCEPTED" ELSE "NOT_FOUND"
      [] req.op = "CopyBlob" ->
            IF req.paths[1] \in blobs THEN "ACCEPTED" ELSE "NOT_FOUND"
      [] req.op = "BatchDelete" -> "ACCEPTED"
      [] OTHER -> "BAD_REQUEST"

\* The status of the part of a batch answer that is about `path`.
PartStatus(core, path) ==
    IF path \in core.denied THEN "FORBIDDEN"
    ELSE IF path \in core.blobs THEN "ACCEPTED" ELSE "NOT_FOUND"

\* AzblobCore's azblob_* calls: build the request, sign it, send it.  The
\* answer is a transport error or a response, with the request that went out
\* and the blobs left behind.
Exchange(core, req) ==
    CASE core.env = "down" ->
            [ok |-> FALSE, status |-> "",
             err |-> Error_new("Unexpected", "send async request"),
             sent |-> <<req>>, blobs |-> core.blobs, parts |-> <<>>]
      [] core.env = "deny" ->
            [ok |-> TRUE, status |-> "FORBIDDEN", err |-> NoError,
             sent |-> <<req>>, blobs |-> core.blobs, parts |-> <<>>]
      [] OTHER ->
            [ok |-> TRUE, status |-> Status(core.blobs, req), err |-> NoError,
             sent |-> <<req>>,
             blobs |-> IF req.op = "BatchDelete"
                       THEN core.blobs \ ({req.paths[i] : i \in 1..Len(req.paths)}
                                          \ core.denied)
                       ELSE Served(core.blobs, req),
             parts |-> IF req.op = "BatchDelete" /\ core.shape # "garbled"
                       THEN [i \in 1..Len(req.paths) |->
                               PartStatus(core, req.paths[i])]
                       ELSE <<>>]

\* No request made: nothing sent, nothing answered, the blobs as they were.
NoExchange(core) ==
    [ok |-> TRUE, status |-> "", err |-> NoError, sent |-> <<>>,
     blobs |-> core.blobs, parts |-> <<>>]

\* parse_error: the Error a response with an unexpected status becomes.
parse_error(status) ==
    CASE status = "NOT_FOUND" -> Error_new("NotFound", status)
      [] status = "FORBIDDEN" -> Error_new("PermissionDenied", status)
      [] OTHER -> Error_new("Unexpected", status)

ends_with(path, ch) == Len(path) > 0 /\ path[Len(path)] = ch

\* parse_into_metadata: the entry mode follows the path.
parse_into_metadata(path) == IF ends_with(path, "/") THEN "DIR" ELSE "FILE"

RpStat(mode) == <<"RpStat", mode>>

\* What an innermost verb did: its result, the requests it handed to the
\* client, and the blobs the service holds afterwards.
\* `svc` is the service's side of the call: how it was disposed (env, shape)
\* and what it answered (status, parts).
Done(result, core, x) ==
    [result |-> result, sent |-> x.sent, blobs |-> x.blobs,
     svc |-> [env |-> core.env, shape |-> core.shape, status |-> x.status,
              parts |-> x.parts]]

\* --------------------------------------------------------- AzblobBackend
\* info() that lists the blocking capability too.
AzblobBackend_info_BlockingListed(core) ==
    [scheme |-> "azblob", root |-> core.root, name |-> core.container,
     max_batch_operations |-> AZBLOB_BATCH_LIMIT,
     capabilities |-> {"Read", "Write", "List", "Scan", "Batch", "Copy", "Blocking"},
     hints |-> {"ReadStreamable"}]

AzblobBackend_info(core) ==
    [scheme |-> "azblob", root |-> core.root, name |-> core.container,
     max_batch_operations |-> AZBLOB_BATCH_LIMIT,
     capabilities |-> {"Read", "Write", "List", "Scan", "Batch", "Copy"},
     hints |-> {"ReadStreamable"}]

AzblobBackend_create_dir(core, path, args) ==
    LET x == Exchange(core, Request("PutBlob", <<path>>))
    IN IF ~x.ok THEN Done(Err(x.err), core, x)
       ELSE IF x.status \in {"CREATED", "OK"}
            THEN Done(Ok(<<"RpCreate">>, NoStream), core, x)
            ELSE Done(Err(parse_error(x.status)), core, x)

AzblobBackend_read(core, path, args) ==
    LET x == Exchange(core, Request("GetBlob", <<path>>))
    IN IF ~x.ok THEN Done(Err(x.err), core, x)
       ELSE IF x.status \in {"OK", "PARTIAL_CONTENT"}
            THEN Done(Ok(<<"RpRead", parse_into_metadata(path)>>, RawStream("Reader")), core, x)
            ELSE Done(Err(parse_error(x.status)), core, x)

\* write that never looks at the append flag.
AzblobBackend_write_AppendIgnored(core, path, args) ==
    Done(Ok(<<"RpWrite">>, RawStream("Writer")), core, NoExchange(core))

AzblobBackend_write(core, path, args) ==
    IF args.append
    THEN Done(Err(Error_new("Unsupported", "append write is not supported")),
              core, NoExchange(core))
    ELSE Done(Ok(<<"RpWrite">>, RawStream("Writer")), core, NoExchange(core))

AzblobBackend_copy(core, path, args) ==
    LET x == Exchange(core, Request("CopyBlob", <<path, args.paths[1]>>))
    IN IF ~x.ok THEN Done(Err(x.err), core, x)
       ELSE IF x.status = "ACCEPTED"
            THEN Done(Ok(<<"RpCopy">>, NoStream), core, x)
            ELSE Done(Err(parse_error(x.status)), core, x)

\* stat without the shortcut for the root.
AzblobBackend_stat_NoRootCase(core, path, args) ==
    LET x == Exchange(core, Request("GetBlobProperties", <<path>>))
    IN IF ~x.ok THEN Done(Err(x.err), core, x)
       ELSE CASE x.status = "OK" ->
                   Done(Ok(RpStat(parse_into_metadata(path)), NoStream), core, x)
              [] x.status = "NOT_FOUND" /\ ends_with(path, "/") ->
                   Done(Ok(RpStat("DIR"), NoStream), core, x)
              [] OTHER -> Done(Err(parse_error(x.status)), core, x)

\* stat that takes NOT_FOUND for a directory whatever the path.
AzblobBackend_stat_NotFoundIsDir(core, path, args) ==
    IF path = <<"/">>
    THEN Done(Ok(RpStat("DIR"), NoStream), core, NoExchange(core))
    ELSE LET x == Exchange(core, Request("GetBlobProperties", <<path>>))
         IN IF ~x.ok THEN Done(Err(x.err), core, x)
            ELSE CASE x.status = "OK" ->
                        Done(Ok(RpStat(parse_into_metadata(path)), NoStream), core, x)
                   [] x.status = "NOT_FOUND" ->
                        Done(Ok(RpStat("DIR"), NoStream), core, x)
                   [] OTHER -> Done(Err(parse_error(x.status)), core, x)

AzblobBackend_stat(core, path, args) ==
    IF path = <<"/">>
    THEN Done(Ok(RpStat("DIR"), NoStream), core, NoExchange(core))
    ELSE LET x == Exchange(core, Request("GetBlobProperties", <<path>>))
         IN IF ~x.ok THEN Done(Err(x.err), core, x)
            ELSE CASE x.status = "OK" ->
                        Done(Ok(RpStat(parse_into_metadata(path)), NoStream), core, x)
                   [] x.status = "NOT_FOUND" /\ ends_with(path, "/") ->
                        Done(Ok(RpStat("DIR"), NoStream), core, x)
                   [] OTHER -> Done(Err(parse_error(x.status)), core, x)

\* delete that takes only ACCEPTED for a success.
AzblobBackend_delete_NotFoundIsError(core, path, args) ==
    LET x == Exchange(core, Request("DeleteBlob", <<path>>))
    IN IF ~x.ok THEN Done(Err(x.err), core, x)
       ELSE IF x.status = "ACCEPTED"
            THEN Done(Ok(<<"RpDelete">>, NoStream), core, x)
            ELSE Done(Err(parse_error(x.status)), core, x)

AzblobBackend_delete(core, path, args) ==
    LET x == Exchange(core, Request("DeleteBlob", <<path>>))
    IN IF ~x.ok THEN Done(Err(x.err), core, x)
       ELSE IF x.status \in {"ACCEPTED", "NOT_FOUND"}
            THEN Done(Ok(<<"RpDelete">>, NoStream), core, x)
            ELSE Done(Err(parse_error(x.status)), core, x)

AzblobBackend_list(core, path, args) ==
    Done(Ok(<<"RpList">>, RawStream("Pager")), core, NoExchange(core))

AzblobBackend_scan(core, path, args) ==
    Done(Ok(<<"RpScan">>, RawStream("Pager")), core, NoExchange(core))

\* parse_batch_delete_response: one result per submitted path, in the order
\* submitted; a part that is ACCEPTED or NOT_FOUND is a success.
parse_batch_delete_response(parts, paths) ==
    IF Len(parts) # Len(paths)
    THEN Err(Error_new("Unexpected", "invalid batch response"))
    ELSE OkBatch([i \in 1..Len(paths) |->
                    <<paths[i],
                      IF parts[i] \in {"ACCEPTED", "NOT_FOUND"}
                      THEN Ok(<<"RpDelete">>, NoStream)
                      ELSE Err(parse_error(parts[i]))>>])

\* The size check with the limit itself shut out.
OverLimit_AtLimitToo(paths) == Len(paths) >= AZBLOB_BATCH_LIMIT

\* paths.len() > AZBLOB_BATCH_LIMIT
OverLimit(paths) == Len(paths) > AZBLOB_BATCH_LIMIT

AzblobBackend_batch(core, path, args) ==
    LET paths == args.paths
    IN IF OverLimit(paths)
       THEN Done(Err(Error_new("Unsupported", "batch delete limit exceeded")),
                 core, NoExchange(core))
       ELSE LET x == Exchange(core, Request("BatchDelete", paths))
            IN IF ~x.ok THEN Done(Err(x.err), core, x)
               ELSE IF x.status # "ACCEPTED"
               THEN Done(Err(parse_error(x.status)), core, x)
               ELSE IF core.shape = "no_content_type"
               THEN Done(Err(Error_new("Unexpected",
                                       "response data should have CONTENT_TYPE header")), core, x)
               ELSE IF core.shape = "no_boundary"
               THEN Done(Err(Error_new("Unexpected",
                                       "No boundary message provided in CONTENT_TYPE")), core, x)
               ELSE IF core.shape = "not_utf8"
               THEN Done(Err(Error_new("Unexpected", "get invalid batch response")), core, x)
               ELSE Done(parse_batch_delete_response(x.parts, paths), core, x)

\* The verbs AzblobBackend does not define fall to the Accessor trait's
\* defaults, which answer Unsupported without touching the service.
Accessor_unsupported(core, path, args) ==
    Done(Err(Error_new("Unsupported", "operation is not supported")),
         core, NoExchange(core))

\* The innermost accessor AzblobBackend answering `verb`.
AzblobCall(verb, core, path, args) ==
    CASE verb = "create_dir" -> AzblobBackend_create_dir(core, path, args)
      [] verb = "read" -> AzblobBackend_read(core, path, args)
      [] verb = "write" -> AzblobBackend_write(core, path, args)
      [] verb = "stat" -> AzblobBackend_stat(core, path, args)
      [] verb = "delete" -> AzblobBackend_delete(core, path, args)
      [] verb = "list" -> AzblobBackend_list(core, path, args)
      [] verb = "scan" -> AzblobBackend_scan(core, path, args)
      [] verb = "batch" -> AzblobBackend_batch(core, path, args)
      [] verb = "copy" -> AzblobBackend_copy(core, path, args)
      [] OTHER -> Accessor_unsupported(core, path, args)

\* ------------------------------------------------- an arbitrary Accessor
\* ErrorContextLayer is generic in the accessor it wraps (A: Accessor).  The
\* accessor "mock" stands for any A: each of its verbs may succeed or fail,
\* and the error it raises already carries an operation and a context entry.
MockErrors ==
    {[kind |-> "PermissionDenied", message |-> "denied",
      operation |-> "Inner::op", context |-> <<<<"inner", "ctx">>>>]}

Mock_info ==
    [scheme |-> "memory", root |-> <<"/">>, name |-> <<"m">>,
     max_batch_operations |-> AZBLOB_BATCH_LIMIT,
     capabilities |-> {"Read", "Write", "List", "Scan", "Batch", "Presign",
                       "Blocking"},
     hints |-> {}]

StreamTypeOf(verb) ==
    CASE verb = "read" -> "Reader"
      [] verb = "blocking_read" -> "BlockingReader"
      [] verb = "write" -> "Writer"
      [] verb = "blocking_write" -> "BlockingWriter"
      [] verb \in {"list", "scan"} -> "Pager"
      [] verb \in {"blocking_list", "blocking_scan"} -> "BlockingPager"
      [] OTHER -> "none"

\* The successful answer of the arbitrary accessor to `verb`; for a batch the
\* entries of the paths in `failing` are errors.
MockOk(verb, args, failing) ==
    IF verb = "batch"
    THEN OkBatch([i \in 1..Len(args.paths) |->
                    <<args.paths[i],
                      IF args.paths[i] \in failing
                      THEN Err(Error_new("PermissionDenied", "entry denied"))
                      ELSE Ok(<<"RpDelete">>, NoStream)>>])
    ELSE IF StreamTypeOf(verb) = "none"
    THEN Ok(<<"Rp", verb>>, NoStream)
    ELSE Ok(<<"Rp", verb>>, RawStream(StreamTypeOf(verb)))

\* ------------------------------------------- ErrorContextWrapper's methods
\* Each method takes w, the wrapper's own scheme and path, and r, what the
\* same method of self.inner returned.  A result that is not an error (a
\* value, end of stream, Poll::Pending) goes through map_err untouched.
Read_poll_read(w, r) ==
    map_err(r, LAMBDA err: Annotate(err, "ReadOperation::Read", w.scheme, w.path))
Read_poll_seek(w, r) ==
    map_err(r, LAMBDA err: Annotate(err, "ReadOperation::Seek", w.scheme, w.path))
Read_poll_next(w, r) ==
    map_err(r, LAMBDA err: Annotate(err, "ReadOperation::Next", w.scheme, w.path))
BlockingRead_read(w, r) ==
    map_err(r, LAMBDA err: Annotate(err, "ReadOperation::BlockingRead", w.scheme, w.path))
BlockingRead_seek(w, r) ==
    map_err(r, LAMBDA err: Annotate(err, "ReadOperation::BlockingSeek", w.scheme, w.path))
BlockingRead_next(w, r) ==
    map_err(r, LAMBDA err: Annotate(err, "ReadOperation::BlockingNext", w.scheme, w.path))
Write_write(w, r) ==
    map_err(r, LAMBDA err: Annotate(err, "WriteOperation::Write", w.scheme, w.path))
Write_append(w, r) ==
    map_err(r, LAMBDA err: Annotate(err, "WriteOperation::Append", w.scheme, w.path))
Write_abort(w, r) ==
    map_err(r, LAMBDA err: Annotate(err, "WriteOperation::Append", w.scheme, w.path))
Write_close(w, r) ==
    map_err(r, LAMBDA err: Annotate(err, "WriteOperation::Close", w.scheme, w.path))
BlockingWrite_write(w, r) ==
    map_err(r, LAMBDA err: Annotate(err, "WriteOperation::BlockingWrite", w.scheme, w.path))
BlockingWrite_append(w, r) ==
    map_err(r, LAMBDA err: Annotate(err, "WriteOperation::BlockingAppend", w.scheme, w.path))
BlockingWrite_close(w, r) ==
    map_err(r, LAMBDA err: Annotate(err, "WriteOperation::BlockingClose", w.scheme, w.path))
\* Page::next reporting the end of the listing as an error.
Page_next_EndIsError(w, r) ==
    IF r.ok /\ r.rp = <<"None">>
    THEN Err(Annotate(Error_new("Unexpected", "no more entries"),
                      "PageOperation::Next", w.scheme, w.path))
    ELSE map_err(r, LAMBDA err: Annotate(err, "PageOperation::Next", w.scheme, w.path))

Page_next(w, r) ==
    map_err(r, LAMBDA err: Annotate(err, "PageOperation::Next", w.scheme, w.path))
BlockingPage_next(w, r) ==
    map_err(r, LAMBDA err: Annotate(err, "PageOperation::BlockingNext", w.scheme, w.path))
StreamMethods(type) ==
    CASE type = "Reader" -> {"poll_read", "poll_seek", "poll_next"}
      [] type = "BlockingReader" -> {"read", "seek", "next"}
      [] type = "Writer" -> {"write", "append", "abort", "close"}
      [] type = "BlockingWriter" -> {"write", "append", "close"}
      [] type = "Pager" -> {"next"}
      [] type = "BlockingPager" -> {"next"}
      [] OTHER -> {}
\* One ErrorContextWrapper's answer to `method`, given its inner's answer r.
WrappedCall(type, method, w, r) ==
    CASE type = "Reader" /\ method = "poll_read" -> Read_poll_read(w, r)
      [] type = "Reader" /\ method = "poll_seek" -> Read_poll_seek(w, r)
      [] type = "Reader" /\ method = "poll_next" -> Read_poll_next(w, r)
      [] type = "BlockingReader" /\ method = "read" -> BlockingRead_read(w, r)
      [] type = "BlockingReader" /\ method = "seek" -> BlockingRead_seek(w, r)
      [] type = "BlockingReader" /\ method = "next" -> BlockingRead_next(w, r)
      [] type = "Writer" /\ method = "write" -> Write_write(w, r)
      [] type = "Writer" /\ method = "append" -> Write_append(w, r)
      [] type = "Writer" /\ method = "abort" -> Write_abort(w, r)
      [] type = "Writer" /\ method = "close" -> Write_close(w, r)
      [] type = "BlockingWriter" /\ method = "write" -> BlockingWrite_write(w, r)
      [] type = "BlockingWriter" /\ method = "append" -> BlockingWrite_append(w, r)
      [] type = "BlockingWriter" /\ method = "close" -> BlockingWrite_close(w, r)
      [] type = "Pager" /\ method = "next" -> Page_next(w, r)
      [] type = "BlockingPager" /\ method = "next" -> BlockingPage_next(w, r)

\* The answer of the n innermost wrappers around a stream whose own method
\* answered r: wrappers[1] is the one the innermost layer put on.
RECURSIVE ThroughWrappers(_, _, _, _, _)
ThroughWrappers(wrappers, n, type, method, r) ==
    IF n = 0 THEN r
    ELSE WrappedCall(type, method, wrappers[n],
                     ThroughWrappers(wrappers, n - 1, type, method, r))

\* What a stream of the innermost accessor may answer to `method`.
StreamError == Error_new("Unexpected", "stream broke")

StreamAnswers(type, method) ==
    {Err(StreamError)} \cup
    CASE method \in {"poll_read", "read"} ->
            {Ok(<<"bytes read", n>>, NoStream) : n \in {0, 2}}
      [] method \in {"poll_seek", "seek"} -> {Ok(<<"position", 0>>, NoStream)}
      [] method \in {"poll_next"} \/ (method = "next" /\ type = "BlockingReader") ->
            {Ok(<<"None">>, NoStream), Ok(<<"Some", "bytes">>, NoStream)}
      [] method = "next" ->
            {Ok(<<"None">>, NoStream), Ok(<<"Some", "entries">>, NoStream)}
      [] OTHER -> {Ok(<<"()">>, NoStream)}

\* Poll::Pending, which only the poll_* methods may answer.
Pending == Ok(<<"Poll::Pending">>, NoStream)

\* ---------------------------------------------------------------- strings
\* A string is a sequence of symbols: a punctuation character (one of
\* . / : ; = and the blanks) or a word, a run of other characters that the
\* code only ever takes whole.  Option<String> is a record: None, or Some(v).
None == [some |-> FALSE, v |-> <<>>]
Some(v) == [some |-> TRUE, v |-> v]

\* Option::unwrap_or_default
unwrap_or_default(o) == IF o.some THEN o.v ELSE <<>>

\* Option::or_else
or_else(o, other) == IF o.some THEN o ELSE other

is_empty(str) == Len(str) = 0

Blanks == {" ", "\n"}

\* str::trim_end_matches(ch)
RECURSIVE trim_end_matches(_, _)
trim_end_matches(str, ch) ==
    IF Len(str) > 0 /\ str[Len(str)] = ch
    THEN trim_end_matches(SubSeq(str, 1, Len(str) - 1), ch)
    ELSE str

\* str::trim: the blanks at both ends go.
RECURSIVE trim(_)
trim(str) ==
    IF Len(str) > 0 /\ str[1] \in Blanks THEN trim(Tail(str))
    ELSE IF Len(str) > 0 /\ str[Len(str)] \in Blanks
    THEN trim(SubSeq(str, 1, Len(str) - 1))
    ELSE str

\* str::replace(ch, ""): every ch goes.
RECURSIVE remove_all(_, _)
remove_all(str, ch) ==
    IF str = <<>> THEN <<>>
    ELSE IF Head(str) = ch THEN remove_all(Tail(str), ch)
    ELSE <<Head(str)>> \o remove_all(Tail(str), ch)

\* The place of the first ch in str, 0 when there is none.
RECURSIVE find(_, _, _)
find(str, ch, i) ==
    IF i > Len(str) THEN 0
    ELSE IF str[i] = ch THEN i
    ELSE find(str, ch, i + 1)

\* str::splitn(2, ch): the whole string, or what is before the first ch and
\* what is after it.
splitn2(str, ch) ==
    LET i == find(str, ch, 1)
    IN IF i = 0 THEN <<str>>
       ELSE <<SubSeq(str, 1, i - 1), SubSeq(str, i + 1, Len(str))>>

\* str::split(ch): the pieces between the ch, empty ones included.
RECURSIVE split(_, _)
split(str, ch) ==
    LET i == find(str, ch, 1)
    IN IF i = 0 THEN <<str>>
       ELSE <<SubSeq(str, 1, i - 1)>> \o split(SubSeq(str, i + 1, Len(str)), ch)

\* str::strip_prefix: None when str does not start with prefix.
strip_prefix(str, prefix) ==
    IF Len(str) >= Len(prefix) /\ SubSeq(str, 1, Len(prefix)) = prefix
    THEN Some(SubSeq(str, Len(prefix) + 1, Len(str)))
    ELSE None

\* to_lowercase that leaves the case as it is.
to_lowercase_CaseKept(str) == str

\* str::to_lowercase, word by word.
LowerWord(w) ==
    CASE w = "BLOB" -> "blob"
      [] w = "Core" -> "core"
      [] w = "WINDOWS" -> "windows"
      [] w = "NET" -> "net"
      [] OTHER -> w

to_lowercase(str) == [i \in 1..Len(str) |-> LowerWord(str[i])]

\* ----------------------------------------------------------- AzblobBuilder
KNOWN_AZBLOB_ENDPOINT_SUFFIX ==
    {<<"blob", ".", "core", ".", "windows", ".", "net">>,
     <<"blob", ".", "core", ".", "usgovcloudapi", ".", "net">>,
     <<"blob", ".", "core", ".", "chinacloudapi", ".", "cn">>}

\* #[derive(Default)]: every Option is None, the container is empty.
AzblobBuilder_default ==
    [root |-> None, container |-> <<>>, endpoint |-> None,
     account_name |-> None, account_key |-> None, sas_token |-> None,
     http_client |-> None]

AzblobBuilder_root(b, root) ==
    IF ~is_empty(root) THEN [b EXCEPT !.root = Some(root)] ELSE b

AzblobBuilder_container(b, container) == [b EXCEPT !.container = container]

\* endpoint() that keeps the trailing '/'.
AzblobBuilder_endpoint_Untrimmed(b, endpoint) ==
    IF ~is_empty(endpoint) THEN [b EXCEPT !.endpoint = Some(endpoint)] ELSE b

AzblobBuilder_endpoint(b, endpoint) ==
    IF ~is_empty(endpoint)
    THEN [b EXCEPT !.endpoint = Some(trim_end_matches(endpoint, "/"))]
    ELSE b

AzblobBuilder_account_name(b, account_name) ==
    IF ~is_empty(account_name) THEN [b EXCEPT !.account_name = Some(account_name)]
    ELSE b

AzblobBuilder_account_key(b, account_key) ==
    IF ~is_empty(account_key) THEN [b EXCEPT !.account_key = Some(account_key)]
    ELSE b

AzblobBuilder_sas_token(b, sas_token) ==
    IF ~is_empty(sas_token) THEN [b EXCEPT !.sas_token = Some(sas_token)] ELSE b

AzblobBuilder_http_client(b, client) == [b EXCEPT !.http_client = Some(client)]

\* A HashMap<String, String> is a sequence of (key, value) entries in the
\* order they were inserted; an insert under a key already there replaces it.
HashMap_get(map, key) ==
    LET at == {i \in DOMAIN map : map[i][1] = key}
    IN IF at = {} THEN None
       ELSE Some(map[CHOOSE i \in at : \A j \in at : j <= i][2])

\* The loop of from_connection_string: the entries that split in two at
\* their first '=' go into the map, the others are left out.
RECURSIVE conn_map_of(_)
conn_map_of(pieces) ==
    IF pieces = <<>> THEN <<>>
    ELSE LET entry == splitn2(Head(pieces), "=")
         IN (IF Len(entry) # 2 THEN <<>> ELSE <<entry>>)
            \o conn_map_of(Tail(pieces))

BuilderOk(b) == [ok |-> TRUE, builder |-> b, err |-> NoError]
BuilderErr(err) == [ok |-> FALSE, builder |-> AzblobBuilder_default, err |-> err]

MissingEntry(message) ==
    with_operation(Error_new("ConfigInvalid", message),
                   "Builder::from_connection_string")

\* Option::unwrap_or
unwrap_or(o, v) == IF o.some THEN o.v ELSE v

\* AzblobBuilder::from_connection_string
AzblobBuilder_from_connection_string(conn) ==
    LET text == remove_all(trim(conn), "\n")
        conn_map == conn_map_of(split(text, ";"))
        sas == HashMap_get(conn_map, <<"SharedAccessSignature">>)
        name == HashMap_get(conn_map, <<"AccountName">>)
        key == HashMap_get(conn_map, <<"AccountKey">>)
        blob_endpoint == HashMap_get(conn_map, <<"BlobEndpoint">>)
        suffix == HashMap_get(conn_map, <<"EndpointSuffix">>)
        protocol ==
            unwrap_or(HashMap_get(conn_map, <<"DefaultEndpointsProtocol">>),
                      <<"https">>)
        credentialed ==
            IF sas.some
            THEN BuilderOk(AzblobBuilder_sas_token(AzblobBuilder_default, sas.v))
            ELSE IF ~name.some
            THEN BuilderErr(MissingEntry("connection string must have AccountName"))
            ELSE IF ~key.some
            THEN BuilderErr(MissingEntry("connection string must have AccountKey"))
            ELSE BuilderOk(AzblobBuilder_account_key(
                     AzblobBuilder_account_name(AzblobBuilder_default, name.v),
                     key.v))
    IN IF ~credentialed.ok THEN credentialed
       ELSE LET b == credentialed.builder
            IN IF blob_endpoint.some
               THEN BuilderOk(AzblobBuilder_endpoint(b, blob_endpoint.v))
               ELSE IF suffix.some
               THEN IF ~b.account_name.some
                    THEN BuilderErr(MissingEntry(
                             "connection string must have AccountName"))
                    ELSE BuilderOk(AzblobBuilder_endpoint(b,
                             protocol \o <<":", "/", "/">> \o b.account_name.v
                             \o <<".", "blob", ".">> \o suffix.v))
               ELSE BuilderOk(b)

\* Builder::from_map: each key that is in the map goes to its setter.
AzblobBuilder_from_map(map) ==
    LET set(b, key) ==
            LET v == HashMap_get(map, <<key>>)
            IN IF ~v.some THEN b
               ELSE CASE key = "root" -> AzblobBuilder_root(b, v.v)
                      [] key = "container" -> AzblobBuilder_container(b, v.v)
                      [] key = "endpoint" -> AzblobBuilder_endpoint(b, v.v)
                      [] key = "account_name" -> AzblobBuilder_account_name(b, v.v)
                      [] key = "account_key" -> AzblobBuilder_account_key(b, v.v)
                      [] key = "sas_token" -> AzblobBuilder_sas_token(b, v.v)
    IN set(set(set(set(set(set(AzblobBuilder_default, "root"), "container"),
                       "endpoint"), "account_name"), "account_key"), "sas_token")

\* normalize_root: the root starts and ends with '/', and is "/" when unset.
normalize_root(root) ==
    LET led == IF Len(root) > 0 /\ root[1] = "/" THEN root ELSE <<"/">> \o root
    IN IF ends_with(led, "/") THEN led ELSE led \o <<"/">>

\* infer_storage_name_from_endpoint
infer_storage_name_from_endpoint(endpoint) ==
    LET bare == unwrap_or(or_else(strip_prefix(endpoint, <<"http", ":", "/", "/">>),
                                  strip_prefix(endpoint, <<"https", ":", "/", "/">>)),
                          endpoint)
        parts == splitn2(bare, ".")
        storage_name == parts[1]
        endpoint_suffix ==
            to_lowercase(trim_end_matches(
                IF Len(parts) = 2 THEN parts[2] ELSE <<>>, "/"))
    IN IF endpoint_suffix \in KNOWN_AZBLOB_ENDPOINT_SUFFIX
       THEN Some(storage_name) ELSE None

\* No accessor built.
NoBackend ==
    [built |-> FALSE, root |-> <<>>, endpoint |-> <<>>, container |-> <<>>,
     account_name |-> None, account_key |-> None, sas_token |-> None]

BuildFailure(err) ==
    with_context(with_operation(err, "Builder::build"), "service", "azblob")

\* build() that takes a builder without an endpoint.
AzblobBuilder_build_NoEndpointCheck(b, client) ==
    LET taken == [b EXCEPT !.root = None, !.http_client = None]
        endpoint == unwrap_or_default(b.endpoint)
    IN IF is_empty(b.container)
       THEN [ok |-> FALSE, builder |-> [b EXCEPT !.root = None],
             backend |-> NoBackend,
             err |-> BuildFailure(Error_new("ConfigInvalid", "container is empty"))]
       ELSE [ok |-> TRUE, builder |-> taken, err |-> NoError,
             backend |->
                [built |-> TRUE,
                 root |-> normalize_root(unwrap_or_default(b.root)),
                 endpoint |-> endpoint, container |-> b.container,
                 account_name |-> or_else(b.account_name,
                                     infer_storage_name_from_endpoint(endpoint)),
                 account_key |-> b.account_key, sas_token |-> b.sas_token]]

\* Builder::build.  It takes &mut self: the root is taken out of the builder
\* at once, the http client when the container and the endpoint have passed.
\* `client` is what HttpClient::new() gives when the builder holds no client.
AzblobBuilder_build(b, client) ==
    LET rootless == [b EXCEPT !.root = None]
        taken == [rootless EXCEPT !.http_client = None]
    IN IF is_empty(b.container)
       THEN [ok |-> FALSE, builder |-> rootless, backend |-> NoBackend,
             err |-> BuildFailure(Error_new("ConfigInvalid", "container is empty"))]
       ELSE IF ~b.endpoint.some
       THEN [ok |-> FALSE, builder |-> rootless, backend |-> NoBackend,
             err |-> BuildFailure(Error_new("ConfigInvalid", "endpoint is empty"))]
       ELSE IF ~b.http_client.some /\ ~client.ok
       THEN [ok |-> FALSE, builder |-> taken, backend |-> NoBackend,
             err |-> BuildFailure(client.err)]
       ELSE [ok |-> TRUE, builder |-> taken, err |-> NoError,
             backend |->
                [built |-> TRUE,
                 root |-> normalize_root(unwrap_or_default(b.root)),
                 endpoint |-> b.endpoint.v, container |-> b.container,
                 account_name |-> or_else(b.account_name,
                                     infer_storage_name_from_endpoint(b.endpoint.v)),
                 account_key |-> b.account_key, sas_token |-> b.sas_token]]

\* What HttpClient::new() may give: a client, or the error of the TLS set-up.
HttpClient_new ==
    {[ok |-> TRUE, err |-> NoError],
     [ok |-> FALSE, err |-> Error_new("Unexpected", "http client build failed")]}

\* ----------------------------------------- what a wrapper asks of its inner
\* A wrapper method that hands abort on as close.
Wrapper_inner_method_AbortCloses(type, method) ==
    IF method = "abort" THEN "close" ELSE method

\* self.inner.<method>(..): every method of ErrorContextWrapper calls the
\* method of the same name on the stream it wraps, once.
Wrapper_inner_method(type, method) == method

\* The method that reaches the innermost stream through n wrappers.
RECURSIVE DelegatedMethod(_, _, _)
DelegatedMethod(n, type, method) ==
    IF n = 0 THEN method
    ELSE DelegatedMethod(n - 1, type, Wrapper_inner_method(type, method))

\* ------------------------------------------------------------ AzblobWriter
\* The Writer of the azblob accessor: write stages the bytes, abort discards
\* what is staged, close puts the blob; append is not supported.  Nothing
\* reaches the service before close.
AzblobWriter_write(core, path) ==
    Done(Ok(<<"()">>, NoStream), core, NoExchange(core))

AzblobWriter_append(core, path) ==
    Done(Err(Error_new("Unsupported", "append write is not supported")),
         core, NoExchange(core))

AzblobWriter_abort(core, path) ==
    Done(Ok(<<"()">>, NoStream), core, NoExchange(core))

AzblobWriter_close(core, path) ==
    LET x == Exchange(core, Request("PutBlob", <<path>>))
    IN IF ~x.ok THEN Done(Err(x.err), core, x)
       ELSE IF x.status \in {"CREATED", "OK"}
            THEN Done(Ok(<<"()">>, NoStream), core, x)
            ELSE Done(Err(parse_error(x.status)), core, x)

AzblobWriterCall(method, core, path) ==
    CASE method = "write" -> AzblobWriter_write(core, path)
      [] method = "append" -> AzblobWriter_append(core, path)
      [] method = "abort" -> AzblobWriter_abort(core, path)
      [] method = "close" -> AzblobWriter_close(core, path)

\* ------------------------------------------------------------------ state
VARIABLES
    inner,      \* which accessor is innermost: "azblob" or "mock"
    chain,      \* the meta of each ErrorContextAccessor, innermost first
    blobs,      \* the blob names the storage service holds
    sessions,   \* the streams the caller holds, by session
    last,       \* the call the caller made last, and all that came of it
    inflight,   \* the call each concurrent caller has begun and not finished
    builder,    \* the AzblobBuilder being configured
    backend,    \* the AzblobBackend that build() gave
    java        \* what the Java binding holds on the native side

vars == <<inner, chain, blobs, sessions, last, inflight, builder, backend, java>>

\* What a call through the accessor leaves alone.
beside == <<inflight, builder, backend, java>>

NoSession == [type |-> "none", path |-> <<>>, wrappers |-> <<>>]

\* A call made on the innermost accessor or stream.
InnerCall(verb, path, args) == [verb |-> verb, path |-> path, args |-> args]

\* last: `result` is what the caller got, `raised` what the innermost
\* accessor or stream answered, `calls` the calls that one received, `sent`
\* the requests handed to the HTTP client, `session` the session of a stream
\* call (0 for a verb), `svc` the service's side of the call.
Observed(verb, path, args, session, result, raised, calls, sent, svc) ==
    [verb |-> verb, path |-> path, args |-> args, session |-> session,
     result |-> result, raised |-> raised, calls |-> calls, sent |-> sent,
     svc |-> svc]

NoService == [env |-> "up", shape |-> "multipart", status |-> "", parts |-> <<>>]

Nothing ==
    Observed("", <<>>, OpDefault, 0, Ok(<<>>, NoStream), Ok(<<>>, NoStream),
             <<>>, <<>>, NoService)

\* AzblobCore as built, with the state of the service at this call.
Core(env, denied, shape) ==
    [root |-> backend.root, container |-> backend.container, blobs |-> blobs,
     env |-> env, denied |-> denied, shape |-> shape]

\* No call begun.
NoCall == [verb |-> "", path |-> <<>>, args |-> OpDefault, session |-> 0]

\* The binding before any native call.
JavaIdle ==
    [operators |-> <<>>, stats |-> <<>>, status |-> "running",
     seen |-> [call |-> "", core |-> Ok(<<>>, NoStream),
               how |-> "", value |-> <<>>, result |-> 0]]

\* The builder of an accessor on container "c", and the accessor it builds.
ContainerC ==
    AzblobBuilder_http_client(
        AzblobBuilder_endpoint(
            AzblobBuilder_container(AzblobBuilder_default, <<"c">>),
            <<"https", ":", "/", "/", "acct", ".", "blob", ".", "core", ".",
              "windows", ".", "net">>),
        <<"client">>)

BuiltC == AzblobBuilder_build(ContainerC, [ok |-> TRUE, err |-> NoError])

InnerInfo ==
    IF inner = "azblob" THEN AzblobBackend_info(Core("up", {}, "multipart"))
    ELSE Mock_info

\* ErrorContextAccessor::metadata, and info() of the accessor under it.
Metadata == IF chain = <<>> THEN InnerInfo ELSE chain[Len(chain)]

\* layer() keeping the scheme, root and name and dropping the rest.
ErrorContextLayer_layer_HidesCapabilities(info) ==
    [info EXCEPT !.capabilities = {}, !.hints = {}]

\* ErrorContextLayer::layer: the new accessor's meta is inner.info().
ErrorContextLayer_layer(info) == info

\* The sets of paths of a batch whose entries may fail on their own.
Denials(paths) ==
    IF Len(paths) <= MaxSmallBatch
    THEN SUBSET {paths[i] : i \in 1..Len(paths)}
    ELSE {{}, {paths[1]}}

\* Everything the innermost accessor may do when asked `verb`.
Answers(verb, path, args) ==
    IF inner = "azblob"
    THEN IF verb = "batch"
         THEN {AzblobCall(verb, Core(env, {}, "multipart"), path, args) :
                 env \in Envs}
              \cup {AzblobCall(verb, Core("up", denied, "multipart"), path, args) :
                      denied \in Denials(args.paths)}
              \cup {AzblobCall(verb, Core("up", {}, shape), path, args) :
                      shape \in Shapes}
         ELSE {AzblobCall(verb, Core(env, {}, "multipart"), path, args) :
                 env \in Envs}
    ELSE LET core == Core("up", {}, "multipart")
         IN {Done(Err(e), core, NoExchange(core)) : e \in MockErrors}
            \cup IF verb = "batch"
                 THEN {Done(MockOk(verb, args, failing), core, NoExchange(core)) :
                         failing \in Denials(args.paths)}
                 ELSE {Done(MockOk(verb, args, {}), core, NoExchange(core))}

\* The call a layer makes on self.inner for a call it received: the same
\* verb with the same path and arguments.
Delegate(call) == InnerCall(call.verb, call.path, call.args)

RECURSIVE Delegated(_, _)
Delegated(n, call) == IF n = 0 THEN call ELSE Delegated(n - 1, Delegate(call))

Init ==
    /\ inner = "azblob"
    /\ chain = <<>>
    /\ blobs = {<<"a">>}
    /\ sessions = <<>>
    /\ last = Nothing
    /\ inflight = <<>>
    /\ builder = BuiltC.builder
    /\ backend = BuiltC.backend
    /\ java = JavaIdle

InitLayer ==
    /\ inner = "mock"
    /\ chain = <<>>
    /\ blobs = {}
    /\ sessions = [s \in {1} |-> NoSession]
    /\ last = Nothing
    /\ inflight = <<>>
    /\ builder = AzblobBuilder_default
    /\ backend = NoBackend
    /\ java = JavaIdle

\* Stacking one more ErrorContextLayer on the accessor.  The chain is built
\* before it is used: layer() takes the accessor by value.
Layer ==
    /\ Len(chain) < MaxLayers
    /\ last.verb \in {"", "layer"}
    /\ chain' = Append(chain, ErrorContextLayer_layer(Metadata))
    /\ last' = Observed("layer", <<>>, OpDefault, 0, Ok(<<>>, NoStream),
                        Ok(<<>>, NoStream), <<>>, <<>>, NoService)
    /\ UNCHANGED <<inner, blobs, sessions, beside>>

\* One verb call through the whole chain.  A stream that comes back is kept
\* in session s, replacing (dropping) the stream held there, or dropped at
\* once (s = 0).
Call(verb, path, args) ==
    \E d \in Answers(verb, path, args), s \in DOMAIN sessions \cup {0} :
        LET res == ThroughLayers(chain, Len(chain), verb, path, args, d.result)
            call == Delegated(Len(chain), InnerCall(verb, path, args))
        IN /\ last' = Observed(verb, path, args, 0, res, d.result, <<call>>,
                               d.sent, d.svc)
           /\ blobs' = d.blobs
           /\ sessions' =
                IF res.ok /\ res.stream # NoStream /\ s # 0
                THEN [sessions EXCEPT ![s] =
                        [type |-> res.stream.type, path |-> path,
                         wrappers |-> res.stream.wrappers]]
                ELSE sessions
           /\ (res.ok /\ res.stream # NoStream) \/ s = 0
           /\ UNCHANGED <<inner, chain, beside>>

\* The batches a caller submits: every short sequence of paths, and long ones
\* around the limit.
RECURSIVE SeqsUpTo(_, _)
SeqsUpTo(S, n) ==
    IF n = 0 THEN {<<>>}
    ELSE LET shorter == SeqsUpTo(S, n - 1)
         IN shorter \cup {Append(q, x) : q \in shorter, x \in S}

LongBatch(n) == [i \in 1..n |-> IF i % 2 = 1 THEN <<"a">> ELSE <<"d", "/">>]

ShortBatches == SeqsUpTo(BlobNames, MaxSmallBatch)

LongBatches == {LongBatch(AZBLOB_BATCH_LIMIT), LongBatch(AZBLOB_BATCH_LIMIT + 1)}

\* The limit is the azblob accessor's: long batches are submitted to it.
Batches == ShortBatches \cup IF inner = "azblob" THEN LongBatches ELSE {}

CreateDir == \E path \in Paths : Call("create_dir", path, OpDefault)
Read == \E path \in Paths, range \in Ranges : Call("read", path, OpRead(range))
Write == \E path \in Paths, append \in BOOLEAN : Call("write", path, OpWrite(append))
Stat == \E path \in Paths : Call("stat", path, OpDefault)
Delete == \E path \in Paths : Call("delete", path, OpDefault)
List == \E path \in Paths : Call("list", path, OpDefault)
Scan == \E path \in Paths : Call("scan", path, OpDefault)
Presign == \E path \in Paths : Call("presign", path, OpDefault)
Batch == \E paths \in Batches : Call("batch", <<>>, OpBatch(paths))
BlockingCreateDir == \E path \in Paths : Call("blocking_create_dir", path, OpDefault)
BlockingRead ==
    \E path \in Paths, range \in Ranges : Call("blocking_read", path, OpRead(range))
BlockingWrite ==
    \E path \in Paths, append \in BOOLEAN :
        Call("blocking_write", path, OpWrite(append))
BlockingStat == \E path \in Paths : Call("blocking_stat", path, OpDefault)
BlockingDelete == \E path \in Paths : Call("blocking_delete", path, OpDefault)
BlockingList == \E path \in Paths : Call("blocking_list", path, OpDefault)
BlockingScan == \E path \in Paths : Call("blocking_scan", path, OpDefault)
Copy == \E from \in Paths, to \in Paths : Call("copy", from, OpCopy(to))

\* Everything the innermost stream may do when asked `method`: the Writer of
\* the azblob accessor talks to the service, the streams of the arbitrary
\* accessor answer freely and touch no service.
InnerStreamAnswers(type, method, path) ==
    IF inner = "azblob" /\ type = "Writer"
    THEN {AzblobWriterCall(method, Core(env, {}, "multipart"), path) : env \in Envs}
    ELSE LET core == Core("up", {}, "multipart")
         IN {Done(a, core, NoExchange(core)) :
               a \in StreamAnswers(type, method)
                      \cup (IF method \in {"poll_read", "poll_seek", "poll_next"}
                            THEN {Pending} ELSE {})}

\* One method call on the stream of session s, through all its wrappers.
StreamCall(s, type, method) ==
    /\ sessions[s].type = type
    /\ LET ws == sessions[s].wrappers
           im == DelegatedMethod(Len(ws), type, method)
       IN \E d \in InnerStreamAnswers(type, im, sessions[s].path) :
            LET res == ThroughWrappers(ws, Len(ws), type, method, d.result)
            IN /\ last' = Observed(method, sessions[s].path, OpDefault, s, res,
                                   d.result, <<InnerCall(im, <<>>, OpDefault)>>,
                                   d.sent, d.svc)
               /\ blobs' = d.blobs
    /\ UNCHANGED <<inner, chain, sessions, beside>>

ReaderPollRead == \E s \in DOMAIN sessions : StreamCall(s, "Reader", "poll_read")
ReaderPollSeek == \E s \in DOMAIN sessions : StreamCall(s, "Reader", "poll_seek")
ReaderPollNext == \E s \in DOMAIN sessions : StreamCall(s, "Reader", "poll_next")
BlockingReaderRead == \E s \in DOMAIN sessions : StreamCall(s, "BlockingReader", "read")
BlockingReaderSeek == \E s \in DOMAIN sessions : StreamCall(s, "BlockingReader", "seek")
BlockingReaderNext == \E s \in DOMAIN sessions : StreamCall(s, "BlockingReader", "next")
WriterWrite == \E s \in DOMAIN sessions : StreamCall(s, "Writer", "write")
WriterAppend == \E s \in DOMAIN sessions : StreamCall(s, "Writer", "append")
WriterAbort == \E s \in DOMAIN sessions : StreamCall(s, "Writer", "abort")
WriterClose == \E s \in DOMAIN sessions : StreamCall(s, "Writer", "close")
BlockingWriterWrite == \E s \in DOMAIN sessions : StreamCall(s, "BlockingWriter", "write")
BlockingWriterAppend == \E s \in DOMAIN sessions : StreamCall(s, "BlockingWriter", "append")
BlockingWriterClose == \E s \in DOMAIN sessions : StreamCall(s, "BlockingWriter", "close")
PagerNext == \E s \in DOMAIN sessions : StreamCall(s, "Pager", "next")
BlockingPagerNext == \E s \in DOMAIN sessions : StreamCall(s, "BlockingPager", "next")

AsyncVerbCalls ==
    \/ CreateDir \/ Read \/ Write \/ Stat \/ Delete
    \/ List \/ Scan \/ Presign \/ Batch

BlockingVerbCalls ==
    \/ BlockingCreateDir \/ BlockingRead \/ BlockingWrite \/ BlockingStat
    \/ BlockingDelete \/ BlockingList \/ BlockingScan

AsyncStreamCalls ==
    \/ ReaderPollRead \/ ReaderPollSeek \/ ReaderPollNext
    \/ WriterWrite \/ WriterAppend \/ WriterAbort \/ WriterClose
    \/ PagerNext

BlockingStreamCalls ==
    \/ BlockingReaderRead \/ BlockingReaderSeek \/ BlockingReaderNext
    \/ BlockingWriterWrite \/ BlockingWriterAppend \/ BlockingWriterClose
    \/ BlockingPagerNext

\* The azblob accessor under the layers.  Its streams (AzblobWriter,
\* AzblobPager, the response body) are handed back and held in no session.
Next == Layer \/ AsyncVerbCalls \/ BlockingVerbCalls \/ Copy

Spec == Init /\ [][Next]_vars

\* An arbitrary accessor under the layers.
NextLayer ==
    Layer \/ AsyncVerbCalls \/ BlockingVerbCalls \/ AsyncStreamCalls
    \/ BlockingStreamCalls

SpecLayer == InitLayer /\ [][NextLayer]_vars

\* A writer session from its opening to its end, over the azblob accessor or
\* over an arbitrary one.
InitWriter ==
    /\ inner \in {"azblob", "mock"}
    /\ chain = <<>>
    /\ blobs = {<<"a">>}
    /\ sessions = [s \in {1} |-> NoSession]
    /\ last = Nothing
    /\ inflight = <<>>
    /\ builder = BuiltC.builder
    /\ backend = BuiltC.backend
    /\ java = JavaIdle

NextWriter ==
    \/ Layer \/ Write \/ BlockingWrite \/ Stat
    \/ WriterWrite \/ WriterAppend \/ WriterAbort \/ WriterClose
    \/ BlockingWriterWrite \/ BlockingWriterAppend \/ BlockingWriterClose

SpecWriter == InitWriter /\ [][NextWriter]_vars

\* ------------------------------------------------------- concurrent callers
\* Several callers share one layered accessor (&self: every verb takes the
\* accessor by shared reference).  Each caller holds at most one stream, in
\* the session of its own number, and has at most one call running.  A call
\* begins, and finishes in a later step: between the two, the other callers
\* begin and finish calls of their own.
Callers == {1, 2}

\* n layers stacked on the arbitrary accessor.
RECURSIVE Stacked(_)
Stacked(n) ==
    IF n = 0 THEN <<>>
    ELSE LET below == Stacked(n - 1)
         IN Append(below, ErrorContextLayer_layer(
                IF below = <<>> THEN Mock_info ELSE below[Len(below)]))

InitShared ==
    /\ inner = "mock"
    /\ chain \in {Stacked(n) : n \in 1..MaxLayers}
    /\ blobs = {}
    /\ sessions = [c \in Callers |-> NoSession]
    /\ last = Nothing
    /\ inflight = [c \in Callers |-> NoCall]
    /\ builder = AzblobBuilder_default
    /\ backend = NoBackend
    /\ java = JavaIdle

\* The stream that caller c's stream calls go to: the one it owns.
SessionOf_FirstOfItsType(c) ==
    LET same == {d \in Callers : sessions[d].type = sessions[c].type}
    IN sessions[CHOOSE d \in same : \A e \in same : d <= e]

SessionOf(c) == sessions[c]

\* Caller c calls a verb: the future is created, holding path and args.
BeginVerb(c, verb, path, args) ==
    /\ inflight[c] = NoCall
    /\ inflight' = [inflight EXCEPT ![c] =
                      [verb |-> verb, path |-> path, args |-> args, session |-> 0]]
    /\ UNCHANGED <<inner, chain, blobs, sessions, last, builder, backend, java>>

\* Caller c calls a method of the stream it holds.
BeginStream(c, type, method) ==
    /\ inflight[c] = NoCall
    /\ sessions[c].type = type
    /\ inflight' = [inflight EXCEPT ![c] =
                      [verb |-> method, path |-> <<>>, args |-> OpDefault,
                       session |-> c]]
    /\ UNCHANGED <<inner, chain, blobs, sessions, last, builder, backend, java>>

\* The verb call of caller c comes back through the layers; the stream it
\* returns is kept in c's session or dropped.
FinishVerb(c) ==
    /\ inflight[c] # NoCall
    /\ inflight[c].session = 0
    /\ LET call == inflight[c]
       IN \E d \in Answers(call.verb, call.path, call.args), keep \in BOOLEAN :
            LET res == ThroughLayers(chain, Len(chain), call.verb, call.path,
                                     call.args, d.result)
            IN /\ last' = Observed(call.verb, call.path, call.args, 0, res,
                                   d.result,
                                   <<Delegated(Len(chain),
                                               InnerCall(call.verb, call.path,
                                                         call.args))>>,
                                   d.sent, d.svc)
               /\ blobs' = d.blobs
               /\ sessions' =
                    IF res.ok /\ res.stream # NoStream /\ keep
                    THEN [sessions EXCEPT ![c] =
                            [type |-> res.stream.type, path |-> call.path,
                             wrappers |-> res.stream.wrappers]]
                    ELSE sessions
               /\ (res.ok /\ res.stream # NoStream) \/ ~keep
    /\ inflight' = [inflight EXCEPT ![c] = NoCall]
    /\ UNCHANGED <<inner, chain, builder, backend, java>>

\* The stream call of caller c comes back through the wrappers of its stream.
FinishStream(c) ==
    /\ inflight[c] # NoCall
    /\ inflight[c].session = c
    /\ LET stream == SessionOf(c)
           method == inflight[c].verb
           ws == stream.wrappers
           im == DelegatedMethod(Len(ws), stream.type, method)
       IN \E d \in InnerStreamAnswers(stream.type, im, stream.path) :
            LET res == ThroughWrappers(ws, Len(ws), stream.type, method, d.result)
            IN /\ last' = Observed(method, stream.path, OpDefault, c, res,
                                   d.result, <<InnerCall(im, <<>>, OpDefault)>>,
                                   d.sent, d.svc)
               /\ blobs' = d.blobs
    /\ inflight' = [inflight EXCEPT ![c] = NoCall]
    /\ UNCHANGED <<inner, chain, sessions, builder, backend, java>>

SharedRead == \E c \in Callers, path \in BlobNames : BeginVerb(c, "read", path, OpRead(NoRange))
SharedStat == \E c \in Callers, path \in BlobNames : BeginVerb(c, "stat", path, OpDefault)
SharedBlockingRead ==
    \E c \in Callers, path \in BlobNames :
        BeginVerb(c, "blocking_read", path, OpRead(NoRange))
SharedPollRead == \E c \in Callers : BeginStream(c, "Reader", "poll_read")
SharedBlockingReaderRead == \E c \in Callers : BeginStream(c, "BlockingReader", "read")
SharedFinishVerb == \E c \in Callers : FinishVerb(c)
SharedFinishStream == \E c \in Callers : FinishStream(c)

NextShared ==
    \/ SharedRead \/ SharedStat \/ SharedBlockingRead
    \/ SharedPollRead \/ SharedBlockingReaderRead
    \/ SharedFinishVerb \/ SharedFinishStream

SpecShared == InitShared /\ [][NextShared]_vars

\* ------------------------------------------------- configuring and building
\* A builder is made (default(), from_map or from_connection_string), its
\* setters are called, build() is called, and the accessor is used.
MaxEntries == 4

AccountEndpoint ==
    <<"https", ":", "/", "/", "acct", ".", "blob", ".", "core", ".", "windows",
      ".", "net", "/">>

PlainEndpoint == <<"http", ":", "/", "/", "host">>

\* The entries a connection string is made of.
ConnEntries ==
    {<<"SharedAccessSignature", "=", "sig">>,
     <<"SharedAccessSignature", "=">>,
     <<"AccountName", "=", "acct">>,
     <<"\n", "AccountName", "=", "other">>,
     <<"AccountName", "=">>,
     <<"AccountKey", "=", "key", "=", "=">>,
     <<"BlobEndpoint", "=">> \o AccountEndpoint,
     <<"EndpointSuffix", "=", "core", ".", "windows", ".", "net">>,
     <<"DefaultEndpointsProtocol", "=", "http">>,
     <<"junk", " ">>}

\* The entries joined with ';'.
RECURSIVE Joined(_)
Joined(entries) ==
    IF entries = <<>> THEN <<>>
    ELSE IF Len(entries) = 1 THEN entries[1]
    ELSE entries[1] \o <<";">> \o Joined(Tail(entries))

ConnStrings == {Joined(es) : es \in SeqsUpTo(ConnEntries, MaxEntries)}

\* The maps given to from_map: each key is left out or has one of its values.
MapValues ==
    [root |-> {<<"r">>}, container |-> {<<>>, <<"c">>},
     endpoint |-> {<<"/">>, AccountEndpoint}, account_name |-> {<<"acct">>},
     account_key |-> {<<"key">>}, sas_token |-> {<<"sig">>}]

MapKeys == <<"root", "container", "endpoint", "account_name", "account_key", "sas_token">>

RECURSIVE MapsOver(_)
MapsOver(n) ==
    IF n = 0 THEN {<<>>}
    ELSE LET fewer == MapsOver(n - 1)
         IN fewer \cup {Append(m, <<<<MapKeys[n]>>, v>>) :
                          m \in fewer, v \in MapValues[MapKeys[n]]}

Maps == MapsOver(Len(MapKeys))

InitBuilder ==
    /\ inner = "azblob"
    /\ chain = <<>>
    /\ blobs = {<<"a">>}
    /\ sessions = <<>>
    /\ last = Nothing
    /\ inflight = <<>>
    /\ builder = AzblobBuilder_default
    /\ backend = NoBackend
    /\ java = JavaIdle

\* What a call on the builder leaves behind: its name, the string it was
\* given, its result, and the calls it made to get a client.
Configured(call, given, result, calls) ==
    Observed(call, given, OpDefault, 0, result, result, calls, <<>>, NoService)

Setter(name, b) ==
    /\ ~backend.built
    /\ builder' = b
    /\ last' = Configured(name, <<>>, Ok(<<>>, NoStream), <<>>)
    /\ UNCHANGED <<inner, chain, blobs, sessions, inflight, backend, java>>

SetRoot == \E v \in {<<>>, <<"r">>} : Setter("root", AzblobBuilder_root(builder, v))
SetContainer ==
    \E v \in {<<>>, <<"c">>} : Setter("container", AzblobBuilder_container(builder, v))
SetEndpoint ==
    \E v \in {<<>>, <<"/">>, AccountEndpoint, PlainEndpoint} :
        Setter("endpoint", AzblobBuilder_endpoint(builder, v))
SetAccountName ==
    \E v \in {<<>>, <<"acct">>} :
        Setter("account_name", AzblobBuilder_account_name(builder, v))
SetAccountKey ==
    \E v \in {<<>>, <<"key">>} :
        Setter("account_key", AzblobBuilder_account_key(builder, v))
SetSasToken ==
    \E v \in {<<>>, <<"sig">>} : Setter("sas_token", AzblobBuilder_sas_token(builder, v))
SetHttpClient == Setter("http_client", AzblobBuilder_http_client(builder, <<"client">>))

\* The constructors make the builder: they are the first call.
FromMap ==
    /\ last = Nothing
    /\ \E map \in Maps :
         /\ builder' = AzblobBuilder_from_map(map)
         /\ last' = Configured("from_map", <<>>, Ok(<<>>, NoStream), <<>>)
    /\ UNCHANGED <<inner, chain, blobs, sessions, inflight, backend, java>>

FromConnectionString ==
    /\ last = Nothing
    /\ \E conn \in ConnStrings, lead \in {<<>>, <<" ">>} :
         LET r == AzblobBuilder_from_connection_string(lead \o conn)
         IN /\ builder' = r.builder
            /\ last' = Configured("from_connection_string", lead \o conn,
                                  IF r.ok THEN Ok(<<>>, NoStream) ELSE Err(r.err),
                                  <<>>)
    /\ UNCHANGED <<inner, chain, blobs, sessions, inflight, backend, java>>

\* build(): the accessor it gives replaces the one built before.
Build ==
    /\ \E client \in HttpClient_new :
         LET r == AzblobBuilder_build(builder, client)
             asked == ~is_empty(builder.container) /\ builder.endpoint.some
                      /\ ~builder.http_client.some
         IN /\ builder' = r.builder
            /\ backend' = IF r.ok THEN r.backend ELSE backend
            /\ last' = Configured("build", <<>>,
                                  IF r.ok THEN Ok(<<>>, NoStream) ELSE Err(r.err),
                                  IF asked
                                  THEN <<InnerCall("HttpClient::new", <<>>, OpDefault)>>
                                  ELSE <<>>)
    /\ UNCHANGED <<inner, chain, blobs, sessions, inflight, java>>

BuiltStat == backend.built /\ Stat
BuiltDelete == backend.built /\ Delete
BuiltWrite == backend.built /\ Write

NextBuilder ==
    \/ SetRoot \/ SetContainer \/ SetEndpoint \/ SetAccountName
    \/ SetAccountKey \/ SetSasToken \/ SetHttpClient
    \/ FromMap \/ FromConnectionString \/ Build
    \/ BuiltStat \/ BuiltDelete \/ BuiltWrite

SpecBuilder == InitBuilder /\ [][NextBuilder]_vars

\* --------------------------------------------------------- the Java binding
\* The native functions of bindings/java.  What the foreign caller sees of a
\* call is `how` it came back ("handle", "null", "value", "stat", "void", or
\* "crash" when a panic left the extern fn), the `value` returned and the
\* `result` out-parameter of getOperator.
MaxHandles == 2
MaxStats == 2

Seen(how, value, result) == [how |-> how, value |-> value, result |-> result]

\* A panic in an extern fn: the build aborts the process or unwinds into the
\* caller's frames; either way the caller gets nothing back.
Panics == {"aborted", "unwound"}

\* Scheme::from_str: a name it does not know is a custom scheme.
Scheme_from_str(name) ==
    IF name \in {"azblob", "memory"} THEN name ELSE "custom"

\* build_operator: Operator::from_map::<B>(map).unwrap().finish() for the
\* schemes it lists, an Unexpected error for the others.  `panic` says that
\* the unwrap met an Err.
build_operator(scheme, map, client) ==
    CASE scheme = "azblob" ->
            LET b == AzblobBuilder_build(AzblobBuilder_from_map(map), client)
            IN [panic |-> ~b.ok, ok |-> b.ok, err |-> b.err]
      [] scheme = "memory" -> [panic |-> FALSE, ok |-> TRUE, err |-> NoError]
      [] OTHER -> [panic |-> FALSE, ok |-> FALSE,
                   err |-> Error_new("Unexpected", "Scheme not supported")]

\* getOperator: the Operator is boxed and its address returned; on an error
\* *result is 1 and the address is null.
Java_getOperator(name, map, client) ==
    LET built == build_operator(Scheme_from_str(name), map, client)
    IN [panic |-> built.panic,
        core |-> IF built.ok THEN Ok(<<>>, NoStream) ELSE Err(built.err),
        operator |-> IF built.ok
                     THEN [state |-> "live", scheme |-> Scheme_from_str(name),
                           boxed |-> "Operator"]
                     ELSE [state |-> "none", scheme |-> "", boxed |-> ""],
        seen |-> IF built.ok THEN Seen("handle", <<>>, 0) ELSE Seen("null", <<>>, 1)]

\* read: the content as a C string, the empty string when op.read fails.
Java_read(r) ==
    [panic |-> FALSE,
     seen |-> IF r.ok THEN Seen("value", r.rp, 0) ELSE Seen("value", <<>>, 0)]

\* write and delete: unwrap() of the core's answer, nothing returned.
Java_write(r) == [panic |-> ~r.ok, seen |-> Seen("void", <<>>, 0)]

Java_delete(r) == [panic |-> ~r.ok, seen |-> Seen("void", <<>>, 0)]

\* stat: Stat(&op.stat(..).unwrap()).  The Metadata is a temporary of the
\* function's last expression: it is dropped when stat returns, and the Stat
\* handed back holds its address.
Java_stat(r) ==
    [panic |-> ~r.ok, seen |-> Seen("stat", <<>>, 0),
     stat |-> [metadata |-> "dropped"]]

\* What the core may answer to a call of the BlockingOperator.
Kinds == {"NotFound", "Unsupported", "Unexpected"}

CoreAnswers(call) ==
    {Err(Error_new(k, "failed")) : k \in Kinds}
    \cup CASE call = "read" -> {Ok(<<>>, NoStream), Ok(<<"x">>, NoStream)}
            [] call = "stat" -> {Ok(RpStat("FILE"), NoStream)}
            [] OTHER -> {Ok(<<"()">>, NoStream)}

\* The maps getOperator is given.
JavaMaps ==
    {<<>>,
     << <<<<"container">>, <<"c">>>>, <<<<"endpoint">>, AccountEndpoint>> >>,
     << <<<<"container">>, <<"c">>>> >>}

InitJava ==
    /\ inner = "mock"
    /\ chain = <<>>
    /\ blobs = {}
    /\ sessions = <<>>
    /\ last = Nothing
    /\ inflight = <<>>
    /\ builder = AzblobBuilder_default
    /\ backend = NoBackend
    /\ java = JavaIdle

others == <<inner, chain, blobs, sessions, last, inflight, builder, backend>>

\* The state after a native call: crashed when it panicked.
AfterCall(call, core, out, operators, stats) ==
    IF out.panic
    THEN \E p \in Panics :
           java' = [java EXCEPT !.status = p,
                                !.seen = [call |-> call, core |-> core,
                                          how |-> "crash", value |-> <<>>,
                                          result |-> 0]]
    ELSE java' = [operators |-> operators, stats |-> stats, status |-> "running",
                  seen |-> [call |-> call, core |-> core, how |-> out.seen.how,
                            value |-> out.seen.value, result |-> out.seen.result]]

Live == {h \in DOMAIN java.operators : java.operators[h].state = "live"}

GetOperator ==
    /\ java.status = "running"
    /\ Len(java.operators) < MaxHandles
    /\ \E name \in {"azblob", "memory", "bogus"}, map \in JavaMaps,
          client \in HttpClient_new :
         LET out == Java_getOperator(name, map, client)
         IN AfterCall("getOperator", out.core, out,
                      IF out.operator.state = "live"
                      THEN Append(java.operators, out.operator)
                      ELSE java.operators,
                      java.stats)
    /\ UNCHANGED others

\* dropOperator: the Box is rebuilt from the address and dropped.
DropOperator ==
    /\ java.status = "running"
    /\ \E h \in Live :
         AfterCall("dropOperator", Ok(<<>>, NoStream),
                   [panic |-> FALSE, seen |-> Seen("void", <<>>, 0)],
                   [java.operators EXCEPT ![h].state = "freed"], java.stats)
    /\ UNCHANGED others

JavaRead ==
    /\ java.status = "running"
    /\ \E h \in Live, r \in CoreAnswers("read") :
         AfterCall("read", r, Java_read(r), java.operators, java.stats)
    /\ UNCHANGED others

JavaWrite ==
    /\ java.status = "running"
    /\ \E h \in Live, r \in CoreAnswers("write") :
         AfterCall("write", r, Java_write(r), java.operators, java.stats)
    /\ UNCHANGED others

JavaDelete ==
    /\ java.status = "running"
    /\ \E h \in Live, r \in CoreAnswers("delete") :
         AfterCall("delete", r, Java_delete(r), java.operators, java.stats)
    /\ UNCHANGED others

JavaStat ==
    /\ java.status = "running"
    /\ Len(java.stats) < MaxStats
    /\ \E h \in Live, r \in CoreAnswers("stat") :
         AfterCall("stat", r, Java_stat(r), java.operators,
                   Append(java.stats, Java_stat(r).stat))
    /\ UNCHANGED others

\* dropStat: the foreign side gives a Stat back.
DropStat ==
    /\ java.status = "running"
    /\ java.stats # <<>>
    /\ AfterCall("dropStat", Ok(<<>>, NoStream),
                 [panic |-> FALSE, seen |-> Seen("void", <<>>, 0)],
                 java.operators, Tail(java.stats))
    /\ UNCHANGED others

NextJava ==
    \/ GetOperator \/ DropOperator \/ JavaRead \/ JavaWrite \/ JavaDelete
    \/ JavaStat \/ DropStat

SpecJava == InitJava /\ [][NextJava]_vars

\* ------------------------------------------------ inferring the storage name
\* infer_storage_name_from_endpoint applied to endpoints put together from a
\* prefix, a storage name, what follows the name's '.', and trailing '/'.
MaxSlashes == 2

EndpointPrefixes ==
    {<<>>, <<"http", ":", "/", "/">>, <<"https", ":", "/", "/">>,
     <<"ftp", ":", "/", "/">>}

StorageNames == {<<"account">>, <<"my-account">>, <<>>}

\* What follows the first '.': `known` says whether it is, but for the case
\* of its letters, one of the three suffixes of Azure blob storage.
EndpointRests ==
    {[text |-> <<"blob", ".", "core", ".", "windows", ".", "net">>, known |-> TRUE],
     [text |-> <<"blob", ".", "core", ".", "usgovcloudapi", ".", "net">>, known |-> TRUE],
     [text |-> <<"blob", ".", "core", ".", "chinacloudapi", ".", "cn">>, known |-> TRUE],
     [text |-> <<"BLOB", ".", "Core", ".", "WINDOWS", ".", "NET">>, known |-> TRUE],
     [text |-> <<"blob", ".", "core", ".", "example", ".", "net">>, known |-> FALSE],
     [text |-> <<"core", ".", "windows", ".", "net">>, known |-> FALSE],
     [text |-> <<"sub", ".", "blob", ".", "core", ".", "windows", ".", "net">>,
      known |-> FALSE],
     [text |-> <<"blob", ".", "core", ".", "windows", ".", "net", ":", "443">>,
      known |-> FALSE],
     [text |-> <<"blob", ".", "core", ".", "windows", ".", "net", "/", "c">>,
      known |-> FALSE]}

Slashes(n) == [i \in 1..n |-> "/"]

\* The endpoint made of the parts; dotted = FALSE leaves out the '.' and
\* what follows it.
EndpointOf(prefix, name, dotted, rest, n) ==
    prefix \o name \o (IF dotted THEN <<".">> \o rest.text ELSE <<>>) \o Slashes(n)

InitInfer ==
    /\ inner = "azblob"
    /\ chain = <<>>
    /\ blobs = {}
    /\ sessions = <<>>
    /\ last = Nothing
    /\ inflight = <<>>
    /\ builder = AzblobBuilder_default
    /\ backend = NoBackend
    /\ java = JavaIdle

\* One call of infer_storage_name_from_endpoint: the endpoint is kept in
\* last.path, the Option it gave in last.result.rp.
Infer ==
    /\ \E prefix \in EndpointPrefixes, name \in StorageNames, dotted \in BOOLEAN,
          rest \in EndpointRests, n \in 0..MaxSlashes :
         LET endpoint == EndpointOf(prefix, name, dotted, rest, n)
             r == infer_storage_name_from_endpoint(endpoint)
         IN last' = Observed("infer_storage_name_from_endpoint", endpoint,
                             OpDefault, 0,
                             Ok(IF r.some THEN <<"Some">> \o r.v ELSE <<"None">>,
                                NoStream),
                             Ok(<<>>, NoStream), <<>>, <<>>, NoService)
    /\ UNCHANGED <<inner, chain, blobs, sessions, inflight, builder, backend, java>>

NextInfer == Infer

SpecInfer == InitInfer /\ [][NextInfer]_vars

\* ================================================================ claims
\* What the checks below read from the last call.
IsVerbCall == last.verb \in Verbs /\ last.session = 0
IsStreamCall == last.session # 0
Layered == Len(chain) >= 1
Scheme == InnerInfo.scheme

\* n copies of the sequence g, one after the other.
RECURSIVE Repeat(_, _)
Repeat(g, n) == IF n = 0 THEN <<>> ELSE g \o Repeat(g, n - 1)

IsPrefix(p, q) == Len(p) <= Len(q) /\ SubSeq(q, 1, Len(p)) = p

\* The operation tag each verb of ErrorContextAccessor is to attach.
TagOfVerb(verb) ==
    CASE verb = "create_dir" -> "Operation::CreateDir"
      [] verb = "read" -> "Operation::Read"
      [] verb = "write" -> "Operation::Write"
      [] verb = "stat" -> "Operation::Stat"
      [] verb = "delete" -> "Operation::Delete"
      [] verb = "list" -> "Operation::List"
      [] verb = "scan" -> "Operation::Scan"
      [] verb = "presign" -> "Operation::Presign"
      [] verb = "batch" -> "Operation::Batch"
      [] verb = "blocking_create_dir" -> "Operation::BlockingCreateDir"
      [] verb = "blocking_read" -> "Operation::BlockingRead"
      [] verb = "blocking_write" -> "Operation::BlockingWrite"
      [] verb = "blocking_stat" -> "Operation::BlockingStat"
      [] verb = "blocking_delete" -> "Operation::BlockingDelete"
      [] verb = "blocking_list" -> "Operation::BlockingList"
      [] verb = "blocking_scan" -> "Operation::BlockingScan"

OpenersOf(type) == {v \in Verbs : StreamTypeOf(v) = type}

\* C3: a failure of any method of a stream that came out of a layered read,
\* write, list or scan (async or blocking) carries the same "service" and
\* the same "path" entries as a call-level failure of the verb that opened the
\* stream would carry for the same error.
C3_StreamFailureSameServiceAndPath ==
    (IsStreamCall /\ ~last.raised.ok) =>
        LET ses == sessions[last.session]
        IN \A v \in OpenersOf(ses.type), range \in Ranges :
             LET atCall == ThroughLayers(chain, Len(ses.wrappers), v, ses.path,
                                         OpRead(range), last.raised)
             IN /\ ~last.result.ok
                /\ ValuesOf(last.result.err.context, "service") =
                     ValuesOf(atCall.err.context, "service")
                /\ ValuesOf(last.result.err.context, "path") =
                     ValuesOf(atCall.err.context, "path")

C3_Witness ==
    /\ IsStreamCall /\ ~last.raised.ok
    /\ sessions[last.session].type = "BlockingWriter"
    /\ last.verb = "close"
    /\ Len(sessions[last.session].wrappers) = 2
    /\ ValuesOf(last.result.err.context, "path") =
         <<sessions[last.session].path, sessions[last.session].path>>

\* ---------------------------------------------------------------- C4
\* An error as it came out of the layers against the error as raised: same
\* Kind, same message, and the context it was raised with still first.
Kept(raised, result) ==
    /\ result.kind = raised.kind
    /\ result.message = raised.message
    /\ IsPrefix(raised.context, result.context)

\* C4: an error that passes through ErrorContextAccessor (a failed verb, a
\* failed entry of a batch) or ErrorContextWrapper (a failed stream method)
\* keeps its Kind and message, and the context entries it already carried
\* stay, in their order, before the entries the layers append.
C4_KindMessageContextKept ==
    /\ ((IsVerbCall \/ IsStreamCall) /\ ~last.raised.ok) =>
          /\ ~last.result.ok
          /\ Kept(last.raised.err, last.result.err)
    /\ (IsVerbCall /\ last.verb = "batch" /\ last.raised.ok) =>
          /\ Len(last.result.results) = Len(last.raised.results)
          /\ \A i \in DOMAIN last.raised.results :
                ~last.raised.results[i][2].ok =>
                    /\ ~last.result.results[i][2].ok
                    /\ Kept(last.raised.results[i][2].err,
                            last.result.results[i][2].err)

C4_Witness ==
    /\ IsStreamCall /\ ~last.raised.ok /\ Len(sessions[last.session].wrappers) = 2
    /\ last.result.err.kind = "Unexpected"
    /\ Len(last.result.err.context) = 4

\* ---------------------------------------------------------------- C5
\* Whether the stream the caller got is the stream the innermost accessor
\* handed out, with one wrapper per layer around it.
SameStream(raised, result, n) ==
    /\ result.type = raised.type
    /\ Len(result.wrappers) = Len(raised.wrappers) + (IF raised = NoStream THEN 0 ELSE n)

\* C5: through the layers and the wrapped streams a call succeeds exactly
\* when the innermost accessor or stream does, with the same response value
\* (byte counts, chunks, entries, end of stream, Poll::Pending), the same
\* paths and per-path outcomes for a batch, and the stream of the innermost
\* accessor inside the one returned; the innermost object received exactly
\* one call for the caller's call, the same verb or method with the same path
\* and arguments.
C5_SameOutcomeOneDelegation ==
    /\ IsVerbCall =>
          /\ last.result.ok = last.raised.ok
          /\ last.result.rp = last.raised.rp
          /\ SameStream(last.raised.stream, last.result.stream, Len(chain))
          /\ Len(last.result.results) = Len(last.raised.results)
          /\ \A i \in DOMAIN last.raised.results :
                /\ last.result.results[i][1] = last.raised.results[i][1]
                /\ last.result.results[i][2].ok = last.raised.results[i][2].ok
                /\ last.result.results[i][2].rp = last.raised.results[i][2].rp
          /\ last.calls = <<InnerCall(last.verb, last.path, last.args)>>
    /\ IsStreamCall =>
          /\ last.result.ok = last.raised.ok
          /\ last.result.rp = last.raised.rp
          /\ last.calls = <<InnerCall(last.verb, <<>>, OpDefault)>>

C5_Witness ==
    /\ IsStreamCall /\ Len(sessions[last.session].wrappers) = 2
    /\ sessions[last.session].type = "Pager"
    /\ last.raised = Ok(<<"None">>, NoStream)
    /\ last.result = Ok(<<"None">>, NoStream)

\* ---------------------------------------------------------------- C6
\* The service took the batch: it answered ACCEPTED with a well-formed
\* multipart body.
BatchAccepted ==
    /\ IsVerbCall /\ last.verb = "batch"
    /\ Len(last.args.paths) <= AZBLOB_BATCH_LIMIT
    /\ last.svc.status = "ACCEPTED" /\ last.svc.shape = "multipart"

\* C6: a batch of N delete paths (N within the limit) that the service took
\* comes back through the layers as a success with exactly one entry per
\* submitted path, in the order submitted; the entry of a path is an ack
\* when the service's part for it was ACCEPTED or NOT_FOUND and an Error
\* otherwise, whatever the other paths' parts were; and the layers return
\* the paths and per-path outcomes of AzblobBackend unchanged.
C6_OneEntryPerPath ==
    BatchAccepted =>
        /\ last.result.ok /\ last.raised.ok
        /\ Len(last.result.results) = Len(last.args.paths)
        /\ Len(last.raised.results) = Len(last.args.paths)
        /\ \A i \in DOMAIN last.args.paths :
              LET e == last.result.results[i]
              IN /\ e[1] = last.args.paths[i]
                 /\ e[2].ok <=> last.svc.parts[i] \in {"ACCEPTED", "NOT_FOUND"}
                 /\ e[2].ok => e[2].rp = <<"RpDelete">> /\ e[2].err = NoError
                 /\ ~e[2].ok => e[2].err.kind = "PermissionDenied"
                 /\ last.raised.results[i][1] = e[1]
                 /\ last.raised.results[i][2].ok = e[2].ok

C6_Witness ==
    /\ BatchAccepted /\ Layered
    /\ Len(last.args.paths) = 2
    /\ last.result.ok
    /\ last.result.results[1][2].ok
    /\ ~last.result.results[2][2].ok

\* ---------------------------------------------------------------- C7
\* C7: AzblobBackend::batch rejects a call with more paths than the maximum
\* batch size info() declares (256): the call fails with the limit error,
\* nothing is handed to the HTTP client and no path gets a result; a call
\* with at most the declared maximum is not rejected for size: its request
\* goes out.
C7_OversizedBatchRejected ==
    (IsVerbCall /\ last.verb = "batch") =>
        /\ Metadata.max_batch_operations = AZBLOB_BATCH_LIMIT
        /\ IF Len(last.args.paths) > Metadata.max_batch_operations
           THEN /\ ~last.raised.ok /\ ~last.result.ok
                /\ last.result.err.kind = "Unsupported"
                /\ last.result.err.message = "batch delete limit exceeded"
                /\ last.sent = <<>>
                /\ last.result.results = <<>>
           ELSE /\ last.sent = <<Request("BatchDelete", last.args.paths)>>
                /\ last.result.err.message # "batch delete limit exceeded"

C7_Witness ==
    /\ IsVerbCall /\ last.verb = "batch"
    /\ Len(last.args.paths) = AZBLOB_BATCH_LIMIT + 1
    /\ ~last.result.ok /\ last.sent = <<>>

\* The other half of C7's case: exactly the declared maximum goes through.
C7_WitnessAtLimit ==
    /\ IsVerbCall /\ last.verb = "batch"
    /\ Len(last.args.paths) = AZBLOB_BATCH_LIMIT
    /\ last.result.ok /\ Len(last.result.results) = AZBLOB_BATCH_LIMIT

\* ---------------------------------------------------------------- C8
\* C8: stat on "/" succeeds with a directory entry and hands nothing to the
\* HTTP client, however the service is disposed (up, denying everything,
\* unreachable), also through the error-context layers.
C8_RootStatIsDir ==
    (IsVerbCall /\ last.verb = "stat" /\ last.path = <<"/">>) =>
        /\ last.result.ok
        /\ last.result.rp = <<"RpStat", "DIR">>
        /\ last.sent = <<>>

C8_Witness ==
    /\ IsVerbCall /\ last.verb = "stat" /\ last.path = <<"/">>
    /\ last.svc.env = "down" /\ Len(chain) = 2
    /\ last.result.ok

\* ---------------------------------------------------------------- C9
\* C9: a delete that the service answers NOT_FOUND is a success, as is one
\* it answers ACCEPTED; so with the service up a delete always succeeds and
\* leaves the path absent: deleting an absent path succeeds (on a NOT_FOUND
\* answer), and of two deletes in sequence of an existing path the first
\* succeeds on ACCEPTED and the second on NOT_FOUND.
C9_DeleteIdempotent ==
    [][(last'.verb = "delete" /\ last'.session = 0) =>
          /\ last'.svc.status \in {"ACCEPTED", "NOT_FOUND"} => last'.result.ok
          /\ last'.svc.env = "up" =>
                /\ last'.result.ok
                /\ last'.svc.status =
                     (IF last'.path \in blobs THEN "ACCEPTED" ELSE "NOT_FOUND")
                /\ last'.path \notin blobs']_vars

\* The second of two deletes of the path that existed at the start.
C9_Witness ==
    /\ IsVerbCall /\ last.verb = "delete" /\ last.path = <<"a">>
    /\ last.svc.status = "NOT_FOUND"
    /\ last.result.ok /\ Layered

\* ---------------------------------------------------------------- C10
\* C10: on the azblob accessor a write call with the append flag fails with
\* Kind Unsupported, no Writer comes back and nothing is handed to the HTTP
\* client; a write call without the flag returns a Writer.
C10_AppendUnsupported ==
    (IsVerbCall /\ last.verb = "write") =>
        IF last.args.append
        THEN /\ ~last.result.ok
             /\ last.result.err.kind = "Unsupported"
             /\ last.result.stream = NoStream /\ last.raised.stream = NoStream
             /\ last.sent = <<>>
        ELSE /\ last.result.ok
             /\ last.result.stream.type = "Writer"

C10_Witness ==
    /\ IsVerbCall /\ last.verb = "write" /\ last.args.append
    /\ last.result.err.kind = "Unsupported" /\ Len(chain) = 2

\* ---------------------------------------------------------------- C11
\* A call on a held Writer or BlockingWriter.
IsWriterCall ==
    /\ last.session # 0
    /\ sessions[last.session].type \in {"Writer", "BlockingWriter"}

\* C11: opening a writer through the layers hands nothing to the service and
\* leaves the blobs as they were; write, append and abort on the layered
\* writer hand nothing to the service and leave the blobs as they were, so a
\* session that is aborted or dropped before close changes nothing; the
\* innermost writer is asked to close exactly when the caller calls close,
\* and opening a new writer over a held one (dropping it) asks the innermost
\* accessor for the write and nothing of the dropped writer.
C11_WriterUntouchedBeforeClose ==
    [][/\ (last'.verb \in {"write", "blocking_write"} /\ last'.session = 0) =>
             /\ last'.sent = <<>>
             /\ blobs' = blobs
             /\ last'.calls = <<InnerCall(last'.verb, last'.path, last'.args)>>
       /\ (last'.session # 0
           /\ sessions'[last'.session].type \in {"Writer", "BlockingWriter"}) =>
             /\ last'.verb # "close" => (last'.sent = <<>> /\ blobs' = blobs)
             /\ Len(last'.calls) = 1
             /\ last'.calls[1].verb = "close" <=> last'.verb = "close"]_vars

\* A write went in and the session was aborted: the blob is still absent.
C11_Witness ==
    /\ IsWriterCall /\ inner = "azblob"
    /\ last.verb = "abort" /\ last.result.ok
    /\ Len(sessions[last.session].wrappers) = 2
    /\ sessions[last.session].path = <<"d", "/">>
    /\ <<"d", "/">> \notin blobs

\* ---------------------------------------------------------------- C12
\* The AccessorCapability each verb goes under.
CapabilityOfVerb(verb) ==
    CASE verb \in BlockingVerbs -> "Blocking"
      [] verb = "presign" -> "Presign"
      [] verb = "list" -> "List"
      [] verb = "scan" -> "Scan"
      [] verb = "batch" -> "Batch"
      [] verb = "copy" -> "Copy"
      [] verb \in {"read", "stat"} -> "Read"
      [] verb \in {"write", "create_dir", "delete"} -> "Write"

\* C12: on the azblob accessor the verbs whose capability info() does not
\* list are presign and the blocking verbs, and each of them answers
\* Unsupported without a request (also through the layers); a verb whose
\* capability is listed (read, write, list, scan, batch, copy, and create_dir,
\* stat, delete with them), called without append and with a batch within the
\* limit, never answers Unsupported.
C12_UnsupportedIffNotListed ==
    (last.session = 0 /\ last.verb \in Verbs \cup {"copy"}) =>
        LET listed == CapabilityOfVerb(last.verb) \in InnerInfo.capabilities
        IN /\ {v \in Verbs \cup {"copy"} :
                 CapabilityOfVerb(v) \notin InnerInfo.capabilities}
                = {"presign"} \cup BlockingVerbs
           /\ ~listed =>
                 /\ ~last.raised.ok /\ last.raised.err.kind = "Unsupported"
                 /\ ~last.result.ok /\ last.result.err.kind = "Unsupported"
                 /\ last.sent = <<>>
           /\ (listed /\ ~last.args.append
                /\ Len(last.args.paths) <= AZBLOB_BATCH_LIMIT) =>
                 /\ last.raised.err.kind # "Unsupported"
                 /\ last.result.err.kind # "Unsupported"

C12_Witness ==
    /\ last.session = 0 /\ last.verb = "blocking_read" /\ Len(chain) = 1
    /\ last.raised.err.kind = "Unsupported" /\ last.sent = <<>>

\* The other half of C12's case: a listed verb carried out.
C12_WitnessListed ==
    /\ last.session = 0 /\ last.verb = "copy" /\ last.result.ok
    /\ last.sent # <<>>

\* ---------------------------------------------------------------- C13
\* C13: at every point metadata() of each ErrorContextAccessor of the chain,
\* the outermost included, is the AccessorInfo of the innermost accessor:
\* same scheme, root, name, capabilities, hints and max batch size; and
\* layer() asked no verb of the accessor it wrapped and sent nothing.
C13_MetadataIsInnerInfo ==
    /\ Metadata = InnerInfo
    /\ \A i \in DOMAIN chain : chain[i] = InnerInfo
    /\ last.verb = "layer" => (last.calls = <<>> /\ last.sent = <<>>)

C13_Witness ==
    /\ Len(chain) = 2 /\ last.verb = "stat" /\ last.session = 0
    /\ Metadata.scheme = "azblob"
    /\ Metadata.capabilities = {"Read", "Write", "List", "Scan", "Batch", "Copy"}
    /\ Metadata.max_batch_operations = AZBLOB_BATCH_LIMIT

\* ---------------------------------------------------------------- C14
\* The asynchronous entry point of a blocking verb.
AsyncOf(verb) ==
    CASE verb = "blocking_create_dir" -> "create_dir"
      [] verb = "blocking_read" -> "read"
      [] verb = "blocking_write" -> "write"
      [] verb = "blocking_stat" -> "stat"
      [] verb = "blocking_delete" -> "delete"
      [] verb = "blocking_list" -> "list"
      [] verb = "blocking_scan" -> "scan"

KeysOf(context) == {context[i][1] : i \in DOMAIN context}

\* C14 as stated: a blocking verb that fails comes back through the layers
\* with the same set of context keys as its asynchronous entry point gives
\* the same failure on the same path and arguments; a
\* failed blocking_read carries the requested range under "range".
C14_BlockingSameKeysAsAsync ==
    (IsVerbCall /\ Layered /\ last.verb \in BlockingVerbs /\ ~last.raised.ok) =>
        LET async == ThroughLayers(chain, Len(chain), AsyncOf(last.verb),
                                   last.path, last.args, last.raised)
        IN /\ KeysOf(last.result.err.context) = KeysOf(async.err.context)
           /\ last.verb = "blocking_read" =>
                 BytesRange_to_string(last.args.range)
                     \in {last.result.err.context[i][2] :
                            i \in {j \in DOMAIN last.result.err.context :
                                     last.result.err.context[j][1] = "range"}}

\* A failed blocking_read of a range, come back with no "range".
C14_Witness ==
    /\ IsVerbCall /\ Layered /\ last.verb = "blocking_read" /\ ~last.raised.ok
    /\ last.args.range = [offset |-> 0, size |-> 3]
    /\ "range" \notin KeysOf(last.result.err.context)
    /\ {"service", "path"} \subseteq KeysOf(last.result.err.context)

\* ---------------------------------------------------------------- C15
\* The path of the call caller c has running: the path it passed to the verb,
\* or the path its stream was opened on.
RunningPath(c) ==
    IF inflight[c].session = 0 THEN inflight[c].path ELSE sessions[c].path

AllAre(values, v) == \A i \in DOMAIN values : values[i] = v

\* C15: with the calls of several callers interleaved, no step of a call
\* (its beginning or its end) changes the accessor (its chain of AccessorInfo
\* and its inner accessor) or touches another caller's stream or running
\* call, and an error that caller c receives carries, in each layer's
\* entries, the path of c's own call or stream and the accessor's scheme.
C15_CallersKeptApart ==
    [][\A c \in Callers :
          (inflight'[c] # inflight[c]) =>
             /\ chain' = chain
             /\ inner' = inner
             /\ Metadata' = Metadata
             /\ \A d \in Callers \ {c} :
                   sessions'[d] = sessions[d] /\ inflight'[d] = inflight[d]
             /\ (inflight'[c] = NoCall /\ ~last'.result.ok) =>
                   LET context == last'.result.err.context
                   IN /\ Len(ValuesOf(context, "path")) = Len(chain)
                      /\ AllAre(ValuesOf(context, "path"), RunningPath(c))
                      /\ Len(ValuesOf(context, "service")) = Len(chain)
                      /\ AllAre(ValuesOf(context, "service"), Scheme)]_vars

\* Caller c has just got an error from its stream while the other caller,
\* holding a stream of the same type on another path, has a call running.
C15_Witness ==
    \E c \in Callers, d \in Callers :
        /\ c # d
        /\ last.session = c
        /\ ~last.result.ok
        /\ inflight[d] # NoCall
        /\ sessions[d].type = sessions[c].type
        /\ sessions[d].path # sessions[c].path
        /\ ValuesOf(last.result.err.context, "path") # <<>>

\* ---------------------------------------------------------------- C16
\* C16: build() fails with ConfigInvalid exactly when the builder's container
\* is empty or it holds no endpoint; a build that fails so has asked for no
\* client, sent nothing, and leaves the service and the accessor built
\* before as they were; and a verb of a built accessor never answers
\* ConfigInvalid.
C16_ConfigRejectedAtBuildOnly ==
    [][/\ (last'.verb = "build") =>
            LET rejected == ~last'.result.ok
                            /\ last'.result.err.kind = "ConfigInvalid"
            IN /\ rejected <=> (is_empty(builder.container) \/ ~builder.endpoint.some)
               /\ rejected => /\ last'.calls = <<>>
                               /\ last'.sent = <<>>
                               /\ blobs' = blobs
                               /\ backend' = backend
               /\ last'.result.ok => backend'.built
       /\ (last'.verb \in Verbs \cup {"copy"}) =>
            /\ backend.built
            /\ last'.result.ok \/ last'.result.err.kind # "ConfigInvalid"]_vars

\* A build refused for want of an endpoint, on a builder that has a container.
C16_Witness ==
    /\ last.verb = "build"
    /\ ~last.result.ok
    /\ last.result.err.kind = "ConfigInvalid"
    /\ last.result.err.message = "endpoint is empty"
    /\ ~is_empty(builder.container)

\* A verb that failed on an accessor that build() gave.
C16_WitnessVerb ==
    /\ last.verb \in Verbs
    /\ backend.built
    /\ ~last.result.ok

\* ---------------------------------------------------------------- C20
\* The entries of a connection string: its pieces between ';' that have a
\* key and a value around their first '='.
EntriesOf(conn) == conn_map_of(split(remove_all(trim(conn), "\n"), ";"))

\* C20 as stated, for signatures that are not empty: from a connection
\* string with a SharedAccessSignature entry comes a builder whose sas_token
\* is that entry's value and whose account_name and account_key are unset;
\* from one without it, lacking AccountName or AccountKey, comes a
\* ConfigInvalid error.
C20_SasPreferredOverKey ==
    (last.verb = "from_connection_string") =>
        LET entries == EntriesOf(last.path)
            sas == HashMap_get(entries, <<"SharedAccessSignature">>)
            name == HashMap_get(entries, <<"AccountName">>)
            key == HashMap_get(entries, <<"AccountKey">>)
        IN IF sas.some
           THEN ~is_empty(sas.v) =>
                    /\ last.result.ok
                    /\ builder.sas_token = Some(sas.v)
                    /\ builder.account_name = None
                    /\ builder.account_key = None
           ELSE (~name.some \/ ~key.some) =>
                    /\ ~last.result.ok
                    /\ last.result.err.kind = "ConfigInvalid"

\* A connection string with a signature, an account name and an account key
\* has been read, and the builder holds the signature alone.
C20_Witness ==
    /\ last.verb = "from_connection_string"
    /\ last.result.ok
    /\ HashMap_get(EntriesOf(last.path), <<"SharedAccessSignature">>).some
    /\ HashMap_get(EntriesOf(last.path), <<"AccountName">>).some
    /\ HashMap_get(EntriesOf(last.path), <<"AccountKey">>).some
    /\ builder.sas_token = Some(<<"sig">>)
    /\ builder.account_name = None

\* ---------------------------------------------------------------- C17
\* C17 as stated: while the process runs, every operator handle that was
\* handed out and not given to dropOperator is a live Operator, and every
\* Stat that was handed out and not given to dropStat refers to a Metadata
\* that is alive.
C17_HandedOutStaysValid ==
    (java.status = "running") =>
        /\ \A h \in DOMAIN java.operators :
              java.operators[h].state \in {"live", "freed"}
        /\ \A i \in DOMAIN java.stats : java.stats[i].metadata = "alive"

\* stat has just returned a Stat of a file the core knows, on a live handle.
C17_Witness ==
    /\ java.status = "running"
    /\ java.seen.call = "stat"
    /\ java.seen.core.ok
    /\ java.seen.how = "stat"
    /\ java.stats # <<>>
    /\ Live # {}

\* ---------------------------------------------------------------- C18
HandleCalls == {"read", "write", "stat", "delete"}

\* What the foreign caller sees of `call` when the core answers r.
Reported(call, r) ==
    LET out == CASE call = "read" -> Java_read(r)
                 [] call = "write" -> Java_write(r)
                 [] call = "delete" -> Java_delete(r)
                 [] call = "stat" -> [panic |-> Java_stat(r).panic,
                                      seen |-> Java_stat(r).seen]
    IN IF out.panic THEN Seen("crash", <<>>, 0) ELSE out.seen

SeenNow == Seen(java.seen.how, java.seen.value, java.seen.result)

\* C18 as stated: when a call on a handle fails in the core with Kind k,
\* what the foreign caller sees is not what it would see had the call failed
\* with another Kind.
C18_KindDetermined ==
    (java.seen.call \in HandleCalls /\ ~java.seen.core.ok) =>
        \A k \in Kinds \ {java.seen.core.err.kind} :
            Reported(java.seen.call, Err(Error_new(k, "failed"))) # SeenNow

\* A read that the core refused as Unsupported has come back.
C18_Witness ==
    /\ java.seen.call = "read"
    /\ ~java.seen.core.ok
    /\ java.seen.core.err.kind = "Unsupported"
    /\ java.status = "running"

\* ---------------------------------------------------------------- C19
\* C19 as stated: a call on a handle that fails in the core comes back to
\* the foreign caller (the process does not crash), and what comes back is
\* nothing a successful call could have returned: for read, it is not a
\* content value.
C19_FailureReturnedAsFailure ==
    (java.seen.call \in HandleCalls /\ ~java.seen.core.ok) =>
        /\ java.seen.how # "crash"
        /\ \A r \in CoreAnswers(java.seen.call) :
              r.ok => Reported(java.seen.call, r) # SeenNow
        /\ (java.seen.call = "read") => java.seen.how # "value"

\* A read that failed in the core has come back as the empty content.
C19_Witness ==
    /\ java.seen.call = "read"
    /\ ~java.seen.core.ok
    /\ java.seen.how = "value"
    /\ java.seen.value = <<>>

C21_WitnessSuffix ==
    /\ last.verb = "from_connection_string"
    /\ last.result.ok
    /\ ~HashMap_get(EntriesOf(last.path), <<"BlobEndpoint">>).some
    /\ HashMap_get(EntriesOf(last.path), <<"DefaultEndpointsProtocol">>).some
    /\ builder.endpoint =
          Some(<<"http", ":", "/", "/", "acct", ".", "blob", ".", "core", ".",
                 "windows", ".", "net">>)

\* ---------------------------------------------------------------- C22
\* C22: for an endpoint made of a prefix, a name without '.', and possibly a
\* '.' and a rest, followed by any number of '/', the function gives the text
\* before the first '.' (the name, with the prefix in front unless it is
\* http:// or https://) exactly when there is a rest and it is, but for the
\* case of its letters, one of the three known suffixes; otherwise None.
C22_NameIffKnownSuffix ==
    (last.verb = "infer_storage_name_from_endpoint") =>
        \A prefix \in EndpointPrefixes, name \in StorageNames, dotted \in BOOLEAN,
           rest \in EndpointRests, n \in 0..MaxSlashes :
            (EndpointOf(prefix, name, dotted, rest, n) = last.path) =>
                LET kept == IF prefix \in {<<"http", ":", "/", "/">>,
                                            <<"https", ":", "/", "/">>}
                            THEN <<>> ELSE prefix
                IN last.result.rp =
                     IF dotted /\ rest.known THEN <<"Some">> \o kept \o name
                     ELSE <<"None">>

\* The name has been inferred from an endpoint with its suffix in capitals
\* and a trailing '/'.
C22_Witness ==
    /\ last.verb = "infer_storage_name_from_endpoint"
    /\ last.path = <<"https", ":", "/", "/", "account", ".", "BLOB", ".", "Core",
                     ".", "WINDOWS", ".", "NET", "/">>
    /\ last.result.rp = <<"Some", "account">>

\* ---------------------------------------------------------------- C23
\* The stream that the last stream call was made on.
StreamOfLast == sessions[last.session]

\* The tag a wrapper of a stream of `type` puts on a failure of `method`.
TagOfMethod(type, method) ==
    WrappedCall(type, method, [scheme |-> "", path |-> <<>>],
                Err(StreamError)).err.operation

\* C23 as stated: a stream call that fails through at least one wrapper
\* carries the operation tag of the method that was called, which no other
\* method of the same stream type produces.
C23_TagIdentifiesMethod ==
    (IsStreamCall /\ ~last.result.ok /\ StreamOfLast.wrappers # <<>>) =>
        /\ last.result.err.operation = TagOfMethod(StreamOfLast.type, last.verb)
        /\ \A other \in StreamMethods(StreamOfLast.type) \ {last.verb} :
              TagOfMethod(StreamOfLast.type, other) # last.result.err.operation

\* A writer's abort has failed through a wrapper.
C23_Witness ==
    /\ IsStreamCall
    /\ StreamOfLast.type = "Writer"
    /\ StreamOfLast.wrappers # <<>>
    /\ last.verb = "abort"
    /\ ~last.result.ok
    /\ last.result.err.operation = "WriteOperation::Append"

\* ---------------------------------------------------------------- C24
ConfigOf(b) ==
    <<b.root, b.container, b.endpoint, b.account_name, b.account_key, b.sas_token>>

\* C24 as stated: when build() has just given an accessor, build() called
\* again on the builder as it now is gives an accessor with the same root,
\* endpoint and container, and leaves the builder's root, container,
\* endpoint, account_name, account_key and sas_token as they are.
C24_BuildRepeatable ==
    (last.verb = "build" /\ last.result.ok) =>
        \A client \in HttpClient_new :
            LET again == AzblobBuilder_build(builder, client)
            IN again.ok =>
                 /\ again.backend.root = backend.root
                 /\ again.backend.endpoint = backend.endpoint
                 /\ again.backend.container = backend.container
                 /\ ConfigOf(again.builder) = ConfigOf(builder)

\* build() has given an accessor rooted at the root the builder was given.
C24_Witness ==
    /\ last.verb = "build"
    /\ last.result.ok
    /\ backend.root = <<"/", "r", "/">>
    /\ backend.container = <<"c">>

\* ---------------------------------------------------------------- C25
\* C25 as stated: getOperator comes back either with a handle, *result
\* untouched, the handle being the address of a BlockingOperator as read,
\* write, stat, delete and dropOperator take it, or with null and *result
\* set to 1; and it comes back with null whenever the scheme or the
\* configuration was refused.
C25_HandleOrNull ==
    (java.seen.call = "getOperator") =>
        /\ \/ /\ java.seen.how = "handle"
              /\ java.seen.result = 0
              /\ java.operators # <<>>
              /\ java.operators[Len(java.operators)].boxed = "BlockingOperator"
           \/ /\ java.seen.how = "null"
              /\ java.seen.result = 1
        /\ ~java.seen.core.ok => java.seen.how = "null"

\* getOperator was given a configuration that the builder rejects.
C25_Witness ==
    /\ java.seen.call = "getOperator"
    /\ ~java.seen.core.ok
    /\ java.seen.core.err.kind = "ConfigInvalid"

\* getOperator was given a scheme it does not support, and one it supports.
C25_WitnessNull ==
    /\ java.seen.call = "getOperator"
    /\ java.seen.how = "null"
    /\ java.seen.result = 1
    /\ java.operators # <<>>

\* ---------------------------------------------------------------- C26
\* C26: stat on a path other than "/" asks the service for the blob's
\* properties and answers by the status: OK gives the metadata parsed for
\* the path; NOT_FOUND gives a directory entry when the path ends with '/'
\* and a NotFound error otherwise; any other status, and a request that
\* got no answer, gives an error.  So a path ending with '/' never gets
\* NotFound, and a file path that is not there gets an error.
C26_StatByStatus ==
    (IsVerbCall /\ last.verb = "stat" /\ last.path # <<"/">>) =>
        LET status == last.svc.status
            dir == ends_with(last.path, "/")
        IN /\ last.sent = <<Request("GetBlobProperties", <<last.path>>)>>
           /\ CASE last.svc.env = "down" -> ~last.result.ok
                [] status = "OK" ->
                      /\ last.result.ok
                      /\ last.result.rp = RpStat(IF dir THEN "DIR" ELSE "FILE")
                [] status = "NOT_FOUND" ->
                      IF dir
                      THEN last.result.ok /\ last.result.rp = RpStat("DIR")
                      ELSE ~last.result.ok /\ last.result.err.kind = "NotFound"
                [] OTHER -> ~last.result.ok
           /\ dir => (last.result.ok \/ last.result.err.kind # "NotFound")

\* stat of a file path that the service does not have, through a layer.
C26_Witness ==
    /\ IsVerbCall /\ last.verb = "stat" /\ last.path = <<"a">>
    /\ last.svc.status = "NOT_FOUND"
    /\ ~last.result.ok
    /\ Layered

\* stat of a path ending with '/' that the service does not have.
C26_WitnessDir ==
    /\ IsVerbCall /\ last.verb = "stat" /\ last.path = <<"d", "/">>
    /\ last.svc.status = "NOT_FOUND"
    /\ last.result.ok

====
